---- MODULE Spec2Model ----
(***************************************************************************)
(* A model of BrowserManager (src/src/browser-manager.ts): the registry of *)
(* browser instances, the admission ceiling of createInstance, the         *)
(* reference-counted operation locks, closeInstance / closeAllInstances    *)
(* and the recurring cleanup sweep.                                        *)
(*                                                                         *)
(* JavaScript runs every handler to its next `await` without interruption, *)
(* so one action of the model is one such synchronous stretch of code: the *)
(* call up to its first await, or the continuation after an await up to    *)
(* the next one (or to the return).  The external engine (playwright) is   *)
(* the environment: each awaited engine call resolves or rejects, which    *)
(* the model chooses nondeterministically per call.                        *)
(***************************************************************************)
EXTENDS Integers, Sequences, FiniteSets, TLC

VARIABLES
    instances,         \* Map<string, BrowserInstance>: id -> [lastUsed]
    operationLocks,    \* Map<string, number>: id -> count (entries are > 0)
    proxyInitialized,  \* the promise this.proxyInitialized has resolved
    nextId,            \* number of ids uuidv4() has generated so far
    now,               \* the wall clock read by new Date()
    creators,          \* in-flight createInstance calls: slot -> position
    closers,           \* in-flight closeInstance calls: slot -> [pc, id]
    closeAll,          \* the in-flight closeAllInstances call
    sweeps,            \* in-flight cleanupInactiveInstances runs
    handles,           \* release functions handed out by acquireOperationLock
    ret,               \* the value the step just taken returned (NoResult: none)
    pages,             \* per session: what its page's listeners appended so far
                       \* and its response listeners in flight
    environment,       \* what the constructor finds: config.proxy, process.env,
                       \* process.platform, the system's proxy settings
    detectedProxy,     \* this.detectedProxy
    calls,             \* per createInstance call in flight: its browserConfig
                       \* and the proxy it has passed to the engine so far
    tools,             \* in-flight executeTools calls on a page: slot -> the
                       \* tool, its arguments and the engine calls it has made
    cleanupTimer,      \* this.cleanupTimer is running
    destroy,           \* the position of the destroy call
    processEnv,        \* process.env: the proxy variables as they are now
    detection,         \* the value of the promise detectLocalProxy() returned
                       \* to the constructor's initializeProxy call
    limit              \* the bounds of the specification (never changes)

vars == <<instances, operationLocks, proxyInitialized, nextId, now,
          creators, closers, closeAll, sweeps, handles, ret, pages,
          environment, detectedProxy, calls, tools, cleanupTimer, destroy,
          processEnv, detection, limit>>

(***************************************************************************)
(* Bounds.  `limit` holds the bounds of the specification that is checked: *)
(*   ids       ids uuidv4() may generate in one behaviour                  *)
(*   creators  createInstance calls in flight at once                      *)
(*   closers   closeInstance calls in flight at once                       *)
(*   sweeps    cleanup sweeps in flight at once                            *)
(*   handles   release functions handed out in one behaviour               *)
(*   time      the value at which the clock stops advancing                *)
(***************************************************************************)
\* Where a specification does not say otherwise, the pages emit nothing,
\* nothing sets a proxy and every createInstance call passes no proxy.
Limits(nIds, nCreators, nClosers, nSweeps, nHandles, maxTime) ==
    [ids |-> nIds, creators |-> nCreators, closers |-> nClosers,
     sweeps |-> nSweeps, handles |-> nHandles, time |-> maxTime,
     messages |-> 0, requests |-> 0, targets |-> 0, free |-> TRUE,
     proxies |-> FALSE, tools |-> 0, destroys |-> 0,
     platforms |-> {"darwin", "linux"}, envChanges |-> 0,
     defaults |-> FALSE]

\* The bounds on what a session's page emits:
\*   messages  console messages of one page
\*   requests  requests (answered or failed) of one page
\*   targets   distinct (method, url) pairs the page requests
\*   free      TRUE: the content of every event is chosen freely;
\*             FALSE: the events of a page follow a fixed pattern
LogLimits(lim, nMessages, nRequests, nTargets, free) ==
    [lim EXCEPT !.messages = nMessages, !.requests = nRequests,
                !.targets = nTargets, !.free = free]

\* Proxies are set: every configuration, environment and per-call
\* browserConfig of the proxy section is drawn.
ProxyLimits(lim) == [lim EXCEPT !.proxies = TRUE]

\* nTools executeTools calls on pages may be in flight at once.
ToolLimits(lim, nTools) == [lim EXCEPT !.tools = nTools]

\* The process runs on one of `platforms`, and nChanges of its proxy
\* variables may be changed after the construction.
EnvLimits(lim, platforms, nChanges) ==
    [lim EXCEPT !.platforms = platforms, !.envChanges = nChanges]

\* config.defaultBrowserConfig may come with a proxy key.
DefaultsLimits(lim) == [lim EXCEPT !.defaults = TRUE]

\* destroy may be called nDestroys times.
DestroyLimits(lim, nDestroys) == [lim EXCEPT !.destroys = nDestroys]

(***************************************************************************)
(* Configuration (ServerConfig).                                           *)
(***************************************************************************)
maxInstances == 2
instanceTimeout == 1

\* the ids a caller may pass: those uuidv4() may generate, registered or not
Ids == 1..limit.ids

(***************************************************************************)
(* Results (ToolResult).  The error strings of the code are modelled by    *)
(* their fixed text and the value interpolated into it.                    *)
(***************************************************************************)
NoError == [text |-> "", arg |-> 0]

\* op, caller and arg say which call returned (its operation, its slot or,
\* negated, the sweep that made it, and its instanceId argument); success,
\* error, instanceId and closedCount are the fields of the ToolResult.
Result(op, caller, arg, success, error, id, count) ==
    [op |-> op, caller |-> caller, arg |-> arg, success |-> success,
     error |-> error, instanceId |-> id, closedCount |-> count]

\* A successful ToolResult with a `data` object; `options` are the options
\* the call was made with.
DataResult(op, arg, options, id, data) ==
    [op |-> op, caller |-> 0, arg |-> arg, success |-> TRUE, error |-> NoError,
     instanceId |-> id, closedCount |-> 0, options |-> options, data |-> data]

MaxInstancesError ==
    [text |-> "Maximum number of instances reached", arg |-> maxInstances]

\* the messages of the errors the engine rejects with, numbered
EngineMessages == {1, 2}

\* CreateFailedError that drops the message of the error it caught
CreateFailedErrorBare(message) ==
    [text |-> "Failed to create browser instance", arg |-> 0]

\* `Failed to create browser instance: ${error.message}`
CreateFailedError(message) ==
    [text |-> "Failed to create browser instance", arg |-> message]

NotFoundError(id) == [text |-> "Instance not found", arg |-> id]

CloseFailedError == [text |-> "Failed to close instance", arg |-> 0]

(***************************************************************************)
(* The registry.                                                           *)
(***************************************************************************)
Registered == DOMAIN instances

Without(map, id) == [i \in (DOMAIN map) \ {id} |-> map[i]]

With(map, id, value) ==
    [i \in (DOMAIN map) \cup {id} |-> IF i = id THEN value ELSE map[i]]

\* A Map iterates in insertion order, which is the order of the ids.
Min(S) == CHOOSE x \in S : \A y \in S : x <= y

RECURSIVE InOrder(_)
InOrder(S) == IF S = {} THEN <<>> ELSE <<Min(S)>> \o InOrder(S \ {Min(S)})

\* AtCapacity with the comparison off by one (> for >=)
AtCapacityOffByOne == Cardinality(Registered) > maxInstances

\* this.instances.size >= this.config.maxInstances
AtCapacity == Cardinality(Registered) >= maxInstances

(***************************************************************************)
(* Operation locks.                                                        *)
(***************************************************************************)
\* this.operationLocks.get(instanceId) ?? 0
LockCount(id) == IF id \in DOMAIN operationLocks THEN operationLocks[id] ELSE 0

isInstanceLocked(id) == LockCount(id) > 0

\* the table after acquireOperationLock's set(instanceId, current + 1)
LocksAfterAcquire(id) == With(operationLocks, id, LockCount(id) + 1)

\* LocksAfterRelease that stores the decremented count, zero included
LocksAfterReleaseKeepsZero(id) == With(operationLocks, id, LockCount(id) - 1)

\* the table after one invocation of the release function of `id`
LocksAfterRelease(id) ==
    IF LockCount(id) <= 1
    THEN Without(operationLocks, id)
    ELSE With(operationLocks, id, LockCount(id) - 1)

(***************************************************************************)
(* Init: the state after `new BrowserManager(config)`.                     *)
(***************************************************************************)
EmptyMap == [i \in {} |-> 0]

IdleCloseAll == [pc |-> "idle", entries |-> {}, pending |-> {},
                 settledOk |-> {}, removed |-> {}]

IdleCloser == [pc |-> "idle", id |-> 0]

IdleSweep == [pc |-> "idle", toClose |-> <<>>, scan |-> EmptyMap]

NoResult == Result("none", 0, 0, TRUE, NoError, 0, 0)

(***************************************************************************)
(* The proxy.  A proxy string is a tuple of its parts; NoProxy is both     *)
(* undefined and the empty string, which the code's tests treat alike.     *)
(* A flag is "absent", "true" or "false".                                  *)
(***************************************************************************)
NoProxy == <<>>

Flags == {"absent", "true", "false"}

\* the servers a configuration names
GlobalServer == <<"http://global">>
ExplicitServer == <<"http://explicit">>
DefaultServer == <<"http://default">>

\* A `proxy` key of a browser configuration: `given` says that the key is
\* there; a key that is not there has neither server nor autoDetect.
NoProxyKey == [given |-> FALSE, server |-> NoProxy, autoDetect |-> "absent"]

\* the `proxy` keys config.defaultBrowserConfig comes with
DefaultProxyKeys ==
    IF limit.defaults
    THEN {NoProxyKey,
          [given |-> TRUE, server |-> DefaultServer, autoDetect |-> "absent"],
          [given |-> TRUE, server |-> NoProxy, autoDetect |-> "false"]}
    ELSE {NoProxyKey}

\* the variables getProxyFromEnv reads; a variable that is set holds a
\* value of its own
EnvNames ==
    {"HTTP_PROXY", "http_proxy", "HTTPS_PROXY", "https_proxy", "ALL_PROXY",
     "all_proxy"}

EnvValue(name) == <<"http://env", name>>

\* what `networksetup -getwebproxy` reports: the command may fail, the
\* proxy may be disabled, the server or the port may be missing
SystemSettings ==
    [fails : BOOLEAN, enabled : BOOLEAN, server : {"", "host"},
     port : {"", "port"}]

NoSystemSettings ==
    [fails |-> FALSE, enabled |-> FALSE, server |-> "", port |-> ""]

\* a process without proxy configuration: no config.proxy, no variable set,
\* not on macOS
DefaultEnvironment ==
    [proxy |-> [server |-> NoProxy, autoDetect |-> "absent"],
     defaultBrowserConfig |-> [proxy |-> NoProxyKey],
     env |-> [name \in EnvNames |-> NoProxy],
     platform |-> "linux",
     system |-> NoSystemSettings]

Environments ==
    IF limit.proxies
    THEN {[proxy |-> [server |-> server, autoDetect |-> autoDetect],
           defaultBrowserConfig |-> [proxy |-> key],
           env |-> [name \in EnvNames |->
                       IF name \in set THEN EnvValue(name) ELSE NoProxy],
           platform |-> system[1],
           system |-> system[2]] :
             server \in {NoProxy, GlobalServer}, autoDetect \in Flags,
             key \in DefaultProxyKeys, set \in SUBSET EnvNames,
             system \in (({"darwin"} \cap limit.platforms) \X SystemSettings)
                            \cup (({"linux"} \cap limit.platforms)
                                     \X {NoSystemSettings})}
    ELSE {DefaultEnvironment}

\* a || b
Or(a, b) == IF a # NoProxy THEN a ELSE b

\* getProxyFromEnv that prefers the lower-case form of each variable
getProxyFromEnvLowerFirst ==
    Or(Or(Or(processEnv["http_proxy"], processEnv["HTTP_PROXY"]),
          Or(processEnv["https_proxy"], processEnv["HTTPS_PROXY"])),
       Or(processEnv["all_proxy"], processEnv["ALL_PROXY"]))

getProxyFromEnv ==
    LET httpProxy ==
            Or(processEnv["HTTP_PROXY"], processEnv["http_proxy"])
        httpsProxy ==
            Or(processEnv["HTTPS_PROXY"], processEnv["https_proxy"])
        allProxy ==
            Or(processEnv["ALL_PROXY"], processEnv["all_proxy"])
    IN Or(Or(httpProxy, httpsProxy), allProxy)

\* `http://${server}:${port}` when the command succeeds and reports an
\* enabled proxy with a server and a port
getMacOSSystemProxy ==
    LET system == environment.system
    IN IF ~system.fails /\ system.enabled /\ system.server # ""
          /\ system.port # ""
       THEN <<"http://", system.server, ":", system.port>>
       ELSE NoProxy

detectLocalProxy ==
    IF getProxyFromEnv # NoProxy THEN getProxyFromEnv
    ELSE IF environment.platform = "darwin" THEN getMacOSSystemProxy
    ELSE NoProxy

\* initializeProxy up to its first await, run by the constructor
DetectedAtConstruction ==
    IF environment.proxy.server # NoProxy THEN environment.proxy.server
    ELSE NoProxy

\* detectLocalProxy() as initializeProxy calls it in the constructor: the
\* function has no await, so it reads the variables and the system settings
\* before the constructor returns; NoProxy when it is not called
DetectionAtConstruction ==
    IF environment.proxy.server = NoProxy
       /\ environment.proxy.autoDetect # "false"
    THEN detectLocalProxy
    ELSE NoProxy

\* this.detectedProxy when initializeProxy has returned: the awaited value
\* is assigned when detectLocalProxy was called
DetectedAfterInitialize ==
    IF environment.proxy.server # NoProxy THEN detectedProxy
    ELSE IF environment.proxy.autoDetect # "false" THEN detection
    ELSE detectedProxy

\* the browserConfig of a call that sets no proxy; the browser type is the
\* one of the merged configuration
DefaultBrowserConfig == [browserType |-> "chromium", proxy |-> NoProxyKey]

BrowserConfigs ==
    IF limit.proxies
    THEN [browserType : {"chromium", "firefox"},
          proxy : {NoProxyKey}
                    \cup [given : {TRUE}, server : {NoProxy, ExplicitServer},
                          autoDetect : Flags]]
    ELSE {DefaultBrowserConfig}

\* { ...this.config.defaultBrowserConfig, ...browserConfig }: a key of the
\* call replaces the key of the default as a whole
Merged(browserConfig) ==
    IF browserConfig.proxy.given THEN browserConfig
    ELSE [browserConfig EXCEPT
             !.proxy = environment.defaultBrowserConfig.proxy]

\* getEffectiveProxy that detects the local proxy anew at every call
getEffectiveProxyDetectsAgain(browserConfig) ==
    IF browserConfig.proxy.server # NoProxy THEN browserConfig.proxy.server
    ELSE IF browserConfig.proxy.autoDetect = "false" THEN NoProxy
    ELSE IF environment.proxy.server # NoProxy THEN environment.proxy.server
    ELSE IF environment.proxy.autoDetect # "false" THEN detectLocalProxy
    ELSE NoProxy

\* getEffectiveProxy that lets the autoDetect flag win over the server
getEffectiveProxyFlagFirst(browserConfig) ==
    IF browserConfig.proxy.autoDetect = "false" THEN NoProxy
    ELSE IF browserConfig.proxy.server # NoProxy
    THEN browserConfig.proxy.server
    ELSE detectedProxy

\* getEffectiveProxy that ignores the autoDetect flag of the call
getEffectiveProxyIgnoresFlag(browserConfig) ==
    IF browserConfig.proxy.server # NoProxy THEN browserConfig.proxy.server
    ELSE detectedProxy

getEffectiveProxy(browserConfig) ==
    IF browserConfig.proxy.server # NoProxy THEN browserConfig.proxy.server
    ELSE IF browserConfig.proxy.autoDetect = "false" THEN NoProxy
    ELSE detectedProxy

\* the --proxy-server argument launchBrowser passes for the configuration
\* it is called with, NoProxy when it passes none
LaunchProxy(config) ==
    IF getEffectiveProxy(config) # NoProxy /\ config.browserType = "chromium"
    THEN getEffectiveProxy(config)
    ELSE NoProxy

\* no createInstance call in flight.  `during` is where destroy stood when
\* the call was made; the code keeps no such value, the properties read it.
NoCall ==
    [browserConfig |-> DefaultBrowserConfig, launchProxy |-> NoProxy,
     effectiveProxy |-> NoProxy, during |-> "idle"]

\* no executeTools call in flight in a slot
IdleTool == [pc |-> "idle"]

Init(bounds) ==
    /\ limit = bounds
    /\ environment \in Environments
    /\ processEnv = environment.env
    /\ detection = DetectionAtConstruction
    /\ detectedProxy = DetectedAtConstruction
    /\ calls = [c \in 1..limit.creators |-> NoCall]
    /\ tools = [t \in 1..limit.tools |-> IdleTool]
    /\ cleanupTimer = TRUE
    /\ destroy = "idle"
    /\ instances = EmptyMap
    /\ operationLocks = EmptyMap
    /\ proxyInitialized = FALSE
    /\ nextId = 0
    /\ now = 0
    /\ creators = [c \in 1..limit.creators |-> "idle"]
    /\ closers = [k \in 1..limit.closers |-> IdleCloser]
    /\ closeAll = IdleCloseAll
    /\ sweeps = [s \in 1..limit.sweeps |-> IdleSweep]
    /\ handles = <<>>
    /\ ret = NoResult
    /\ pages = EmptyMap

(***************************************************************************)
(* initializeProxy: the constructor starts it; createInstance awaits it.   *)
(***************************************************************************)
InitializeProxyDone ==
    /\ ~proxyInitialized
    /\ proxyInitialized' = TRUE
    /\ detectedProxy' = DetectedAfterInitialize
    /\ ret' = NoResult
    /\ UNCHANGED <<limit, processEnv, detection, tools, cleanupTimer, destroy,
                   environment, calls, pages, instances, operationLocks,
                   nextId, now, creators, closers, closeAll, sweeps, handles>>

(***************************************************************************)
(* The clock.                                                              *)
(***************************************************************************)
Tick ==
    /\ now < limit.time
    /\ now' = now + 1
    /\ ret' = NoResult
    /\ UNCHANGED <<limit, processEnv, detection, environment, detectedProxy,
                   calls, tools, cleanupTimer, destroy, pages, instances,
                   operationLocks, proxyInitialized, nextId, creators, closers,
                   closeAll, sweeps, handles>>

\* a value a proxy variable is set to after the construction
LaterValue(name) == <<"http://later", name>>

\* The process sets or unsets one of its proxy variables after the
\* construction of the manager; no code of the manager runs.
SetEnv(name, value) ==
    /\ processEnv[name] # value
    /\ Cardinality({other \in EnvNames \ {name} :
                       processEnv[other] # environment.env[other]})
           < limit.envChanges
    /\ processEnv' = [processEnv EXCEPT ![name] = value]
    /\ ret' = NoResult
    /\ UNCHANGED <<limit, detection, environment, detectedProxy, calls, tools,
                   cleanupTimer, destroy, pages, instances, operationLocks,
                   proxyInitialized, nextId, now, creators, closers, closeAll,
                   sweeps, handles>>

(***************************************************************************)
(* createInstance.  Positions of a call: "awaitProxy" (await               *)
(* this.proxyInitialized), "launch" (await launchBrowser), "newContext"    *)
(* (await browser.newContext), "newPage" (await context.newPage).          *)
(***************************************************************************)
InFlightCreates == {c \in 1..limit.creators : creators[c] # "idle"}

\* The call itself: it runs to `await this.proxyInitialized`.
CreateCall(c, browserConfig) ==
    /\ creators[c] = "idle"
    /\ nextId + Cardinality(InFlightCreates) < limit.ids
    /\ creators' = [creators EXCEPT ![c] = "awaitProxy"]
    /\ calls' = [calls EXCEPT ![c] = [NoCall EXCEPT
                                         !.browserConfig = browserConfig,
                                         !.during = destroy]]
    /\ ret' = NoResult
    /\ UNCHANGED <<limit, processEnv, detection, tools, cleanupTimer, destroy,
                   environment, detectedProxy, pages, instances,
                   operationLocks, proxyInitialized, nextId, now, closers,
                   closeAll, sweeps, handles>>

\* After the proxy wait: the size check, then the call of launchBrowser.
CreateCheck(c) ==
    /\ creators[c] = "awaitProxy"
    /\ proxyInitialized
    /\ IF AtCapacity
       THEN /\ creators' = [creators EXCEPT ![c] = "idle"]
            /\ calls' = [calls EXCEPT ![c] = NoCall]
            /\ ret' = Result("createInstance", c, 0, FALSE, MaxInstancesError, 0, 0)
       ELSE /\ creators' = [creators EXCEPT ![c] = "launch"]
            /\ calls' = [calls EXCEPT ![c].launchProxy =
                             LaunchProxy(Merged(calls[c].browserConfig))]
            /\ ret' = NoResult
    /\ UNCHANGED <<limit, processEnv, detection, tools, cleanupTimer, destroy,
                   environment, detectedProxy, pages, instances,
                   operationLocks, proxyInitialized, nextId, now, closers,
                   closeAll, sweeps, handles>>

\* launchBrowser resolved: the effective proxy is computed from the
\* browserConfig of the call and browser.newContext is called with it.
CreateLaunched(c) ==
    /\ creators[c] = "launch"
    /\ creators' = [creators EXCEPT ![c] = "newContext"]
    /\ calls' = [calls EXCEPT ![c].effectiveProxy =
                     getEffectiveProxy(calls[c].browserConfig)]
    /\ ret' = NoResult
    /\ UNCHANGED <<limit, processEnv, detection, tools, cleanupTimer, destroy,
                   environment, detectedProxy, pages, instances,
                   operationLocks, proxyInitialized, nextId, now, closers,
                   closeAll, sweeps, handles>>

\* newContext resolved: context.newPage is called.
CreateContextOpened(c) ==
    /\ creators[c] = "newContext"
    /\ creators' = [creators EXCEPT ![c] = "newPage"]
    /\ ret' = NoResult
    /\ UNCHANGED <<limit, processEnv, detection, environment, detectedProxy,
                   calls, tools, cleanupTimer, destroy, pages, instances,
                   operationLocks, proxyInitialized, nextId, now, closers,
                   closeAll, sweeps, handles>>

\* The instance record stored by this.instances.set: lastUsed: new Date(),
\* the three arrays the listeners of its page append to, and of its
\* browser and its context the proxy each was made with.
NewInstance(c) ==
    [lastUsed |-> now, consoleLogs |-> <<>>, networkApiLogs |-> <<>>,
     networkAssetLogs |-> <<>>, launchProxy |-> calls[c].launchProxy,
     contextProxy |-> calls[c].effectiveProxy]

\* The result of a createInstance call that succeeds: data.proxy is the
\* effective proxy.
CreatedResult(c, id) ==
    [op |-> "createInstance", caller |-> c, arg |-> 0, success |-> TRUE,
     error |-> NoError, instanceId |-> id, closedCount |-> 0,
     data |-> [instanceId |-> id,
               browserType |-> calls[c].browserConfig.browserType,
               proxy |-> calls[c].effectiveProxy]]

\* The page of a new session: nothing appended, no response listener in
\* flight.  consoleAppended and networkAppended list every entry the
\* listeners have pushed, in the order of the pushes; requests counts the
\* requests the page has made; responses holds the entries of the response
\* listeners that wait for response.text().
NewPage ==
    [consoleAppended |-> <<>>, networkAppended |-> <<>>, requests |-> 0,
     responses |-> {}]

\* newPage resolved: the three arrays are created, the listeners are
\* attached, the id is generated and the instance is stored; the call
\* returns success.
CreatePageOpened(c) ==
    /\ creators[c] = "newPage"
    /\ nextId < limit.ids
    /\ nextId' = nextId + 1
    /\ instances' = With(instances, nextId + 1, NewInstance(c))
    /\ pages' = With(pages, nextId + 1, NewPage)
    /\ creators' = [creators EXCEPT ![c] = "idle"]
    /\ calls' = [calls EXCEPT ![c] = NoCall]
    /\ ret' = CreatedResult(c, nextId + 1)
    /\ UNCHANGED <<limit, processEnv, detection, tools, cleanupTimer, destroy,
                   environment, detectedProxy, operationLocks,
                   proxyInitialized, now, closers, closeAll, sweeps, handles>>

\* launch, newContext or newPage rejected: the catch block returns.
CreateEngineFailed(c, message) ==
    /\ creators[c] \in {"launch", "newContext", "newPage"}
    /\ creators' = [creators EXCEPT ![c] = "idle"]
    /\ calls' = [calls EXCEPT ![c] = NoCall]
    /\ ret' = Result("createInstance", c, 0, FALSE, CreateFailedError(message),
                     0, 0)
    /\ UNCHANGED <<limit, processEnv, detection, tools, cleanupTimer, destroy,
                   environment, detectedProxy, pages, instances,
                   operationLocks, proxyInitialized, nextId, now, closers,
                   closeAll, sweeps, handles>>

(***************************************************************************)
(* The listeners of a session's page.  A listener appends to the array it  *)
(* closes over; the arrays are reachable through the registry only, so the *)
(* model follows the events of registered sessions.  Where the events     *)
(* follow the fixed pattern, they are the events of the first session.     *)
(***************************************************************************)
MAX_CONSOLE_LOG_ENTRIES == 1000
MAX_NETWORK_API_ENTRIES == 500
MAX_NETWORK_ASSET_ENTRIES == 200
MAX_CACHED_BODY_SIZE == 100000

STATIC_RESOURCE_TYPES ==
    {"document", "stylesheet", "image", "media", "font", "script",
     "texttrack", "manifest"}

\* the last n elements of a sequence: Array.prototype.slice(-n), n > 0
LastN(seq, n) ==
    IF Len(seq) <= n THEN seq ELSE SubSeq(seq, Len(seq) - n + 1, Len(seq))

\* Pushed with the entry put in front of the buffer (unshift for push)
PushedInFront(buffer, entry, maxEntries) ==
    LastN(<<entry>> \o buffer, maxEntries)

\* Pushed that evicts the newest entries instead of the oldest
PushedKeepsOldest(buffer, entry, maxEntries) ==
    IF Len(buffer) + 1 > maxEntries
    THEN SubSeq(Append(buffer, entry), 1, maxEntries)
    ELSE Append(buffer, entry)

\* buffer.push(entry); if (buffer.length > max) buffer.splice(0, length - max)
Pushed(buffer, entry, maxEntries) ==
    IF Len(buffer) + 1 > maxEntries
    THEN SubSeq(Append(buffer, entry), Len(buffer) + 2 - maxEntries,
                Len(buffer) + 1)
    ELSE Append(buffer, entry)

\* the message types a page emits (msg.type())
ConsoleTypes == {"log", "error"}

\* the type of the n-th message of a page whose events follow the pattern
ConsolePattern(n) == <<"log", "error", "log">>[((n - 1) % 3) + 1]

\* The console listener: the n-th message of the page of `id`, its text
\* "msg-n", is pushed to consoleLogs.
ConsoleEvent(id, type) ==
    /\ id \in Registered
    /\ Len(pages[id].consoleAppended) < limit.messages
    /\ \/ limit.free
       \/ id = 1 /\ type = ConsolePattern(Len(pages[id].consoleAppended) + 1)
    /\ LET entry == [type |-> type,
                     text |-> Len(pages[id].consoleAppended) + 1]
       IN /\ instances' = [instances EXCEPT ![id].consoleLogs =
                               Pushed(@, entry, MAX_CONSOLE_LOG_ENTRIES)]
          /\ pages' = [pages EXCEPT ![id].consoleAppended = Append(@, entry)]
    /\ ret' = NoResult
    /\ UNCHANGED <<limit, processEnv, detection, environment, detectedProxy,
                   calls, tools, cleanupTimer, destroy, operationLocks,
                   proxyInitialized, nextId, now, creators, closers, closeAll,
                   sweeps, handles>>

\* the resource kinds a page requests (request.resourceType())
ResourceTypes == {"document", "image", "xhr", "fetch"}

\* the (method, url) pairs a page requests
RequestTargets ==
    <<[method |-> "GET", url |-> 1], [method |-> "POST", url |-> 1],
      [method |-> "GET", url |-> 2], [method |-> "POST", url |-> 2]>>

Targets == {RequestTargets[i] : i \in 1..limit.targets}

\* cachedBody of an entry without a cached body (undefined)
NoBody == -1

\* The entry a network listener builds for the n-th request of a page.  A
\* body is modelled by its length.
NetworkEntry(n, kind, target, failed) ==
    [seq |-> n, url |-> target.url, method |-> target.method,
     resourceType |-> kind, failed |-> failed, cachedBody |-> NoBody]

\* the n-th request of a page whose events follow the pattern: what was
\* requested and whether the request failed
NetworkPattern(n) ==
    <<[kind |-> "xhr", failed |-> FALSE], [kind |-> "image", failed |-> TRUE],
      [kind |-> "document", failed |-> FALSE],
      [kind |-> "fetch", failed |-> TRUE]>>[((n - 1) % 4) + 1]

\* InstanceAfterPush that tells the buffers apart the other way round
InstanceAfterPushSwapped(id, entry) ==
    IF entry.resourceType \in STATIC_RESOURCE_TYPES
    THEN [instances[id] EXCEPT !.networkApiLogs =
              Pushed(@, entry, MAX_NETWORK_API_ENTRIES)]
    ELSE [instances[id] EXCEPT !.networkAssetLogs =
              Pushed(@, entry, MAX_NETWORK_ASSET_ENTRIES)]

\* The instance after targetBuffer.push(entry) and the trim: the target is
\* networkAssetLogs when the resource type is static, else networkApiLogs.
InstanceAfterPush(id, entry) ==
    IF entry.resourceType \in STATIC_RESOURCE_TYPES
    THEN [instances[id] EXCEPT !.networkAssetLogs =
              Pushed(@, entry, MAX_NETWORK_ASSET_ENTRIES)]
    ELSE [instances[id] EXCEPT !.networkApiLogs =
              Pushed(@, entry, MAX_NETWORK_API_ENTRIES)]

\* A request of the page may be made: the bound, and the pattern.
MayRequest(id, kind, failed, text) ==
    /\ id \in Registered
    /\ pages[id].requests < limit.requests
    /\ \/ limit.free
       \/ /\ id = 1
          /\ ~text
          /\ NetworkPattern(pages[id].requests + 1) =
                 [kind |-> kind, failed |-> failed]

\* The response listener, up to its push or to `await response.text()`:
\* `text` says whether the content type of the response is a text type.
ResponseEvent(id, kind, target, text) ==
    /\ MayRequest(id, kind, FALSE, text)
    /\ LET entry == NetworkEntry(pages[id].requests + 1, kind, target, FALSE)
       IN IF text
          THEN /\ instances' = instances
               /\ pages' = [pages EXCEPT ![id].requests = @ + 1,
                                         ![id].responses = @ \cup {entry}]
          ELSE /\ instances' = [instances EXCEPT
                                   ![id] = InstanceAfterPush(id, entry)]
               /\ pages' = [pages EXCEPT ![id].requests = @ + 1,
                                         ![id].networkAppended =
                                             Append(@, entry)]
    /\ ret' = NoResult
    /\ UNCHANGED <<limit, processEnv, detection, environment, detectedProxy,
                   calls, tools, cleanupTimer, destroy, operationLocks,
                   proxyInitialized, nextId, now, creators, closers, closeAll,
                   sweeps, handles>>

\* the lengths of the bodies response.text() resolves with
BodyLengths == {0, MAX_CACHED_BODY_SIZE, MAX_CACHED_BODY_SIZE + 1}

\* entry.cachedBody after response.text() resolved with a body of `length`
CachedBody(length) == IF length <= MAX_CACHED_BODY_SIZE THEN length ELSE NoBody

\* The response listener after `await response.text()`: the body is cached
\* when it is short enough (`length`), or text() rejected (`readable` is
\* FALSE); then the push.
ResponseBodyRead(id, entry, readable, length) ==
    /\ id \in Registered
    /\ entry \in pages[id].responses
    /\ LET stored == IF readable
                     THEN [entry EXCEPT !.cachedBody = CachedBody(length)]
                     ELSE entry
       IN /\ instances' = [instances EXCEPT
                              ![id] = InstanceAfterPush(id, stored)]
          /\ pages' = [pages EXCEPT ![id].responses = @ \ {entry},
                                    ![id].networkAppended = Append(@, stored)]
    /\ ret' = NoResult
    /\ UNCHANGED <<limit, processEnv, detection, environment, detectedProxy,
                   calls, tools, cleanupTimer, destroy, operationLocks,
                   proxyInitialized, nextId, now, creators, closers, closeAll,
                   sweeps, handles>>

\* The requestfailed listener.
RequestFailedEvent(id, kind, target) ==
    /\ MayRequest(id, kind, TRUE, FALSE)
    /\ LET entry == NetworkEntry(pages[id].requests + 1, kind, target, TRUE)
       IN /\ instances' = [instances EXCEPT
                              ![id] = InstanceAfterPush(id, entry)]
          /\ pages' = [pages EXCEPT ![id].requests = @ + 1,
                                    ![id].networkAppended = Append(@, entry)]
    /\ ret' = NoResult
    /\ UNCHANGED <<limit, processEnv, detection, environment, detectedProxy,
                   calls, tools, cleanupTimer, destroy, operationLocks,
                   proxyInitialized, nextId, now, creators, closers, closeAll,
                   sweeps, handles>>

\* the events the listeners of a page are attached to
ListenerKinds == {"console", "response", "requestfailed"}

\* A listener whose body is not inside a try block lets the error out: the
\* console listener.
Raises(kind) == kind = "console"

\* what a listener call that met a throwing accessor ended with: nothing,
\* or the error raised to the emitter of the event
ListenerOutcome(kind, id) ==
    [op |-> "listener", caller |-> 0, arg |-> id, success |-> ~Raises(kind),
     error |-> NoError, instanceId |-> 0, closedCount |-> 0, kind |-> kind,
     raised |-> Raises(kind)]

\* An event whose object throws from an accessor (msg.location(),
\* request.resourceType(), response.status(), ...) before the listener has
\* built its entry: no push is reached.
ListenerThrows(id, kind) ==
    /\ id \in Registered
    /\ ret' = ListenerOutcome(kind, id)
    /\ UNCHANGED <<limit, processEnv, detection, environment, detectedProxy,
                   calls, tools, cleanupTimer, destroy, pages, instances,
                   operationLocks, proxyInitialized, nextId, now, creators,
                   closers, closeAll, sweeps, handles>>

(***************************************************************************)
(* getInstance.                                                            *)
(***************************************************************************)
\* Touched that leaves lastUsed as it is
TouchedNot(id) == instances

\* instance.lastUsed = new Date()
Touched(id) == With(instances, id, [instances[id] EXCEPT !.lastUsed = now])

GetInstance(id) ==
    /\ IF id \in Registered
       THEN /\ instances' = Touched(id)
            /\ ret' = Result("getInstance", 0, id, TRUE, NoError, id, 0)
       ELSE /\ instances' = instances
            /\ ret' = Result("getInstance", 0, id, FALSE, NoError, 0, 0)
    /\ UNCHANGED <<limit, processEnv, detection, environment, detectedProxy,
                   calls, tools, cleanupTimer, destroy, pages, operationLocks,
                   proxyInitialized, nextId, now, creators, closers, closeAll,
                   sweeps, handles>>

(***************************************************************************)
(* executeTools for the tools that act on a page.  A string argument is    *)
(* modelled by what the code reads of it: a selector and a script by their *)
(* length, a URL by what `new URL` makes of it.  An argument that is not   *)
(* passed is undefined.  A call in flight is [pc |-> "engine"] with the    *)
(* tool, its arguments, the engine calls it has issued (the last one is    *)
(* awaited) and those it will issue when the awaited one resolves.         *)
(***************************************************************************)
MAX_SCRIPT_SIZE == 1000000
MAX_SELECTOR_SIZE == 10000

\* an argument that is not passed
Undefined == -1

\* the URLs a navigation is called with
Urls ==
    {"http://a.test/", "https://a.test/", "HTTP://A.TEST/", "file:///etc/passwd",
     "javascript:alert(1)", "data:text/html,a", "a.test"}

\* new URL(url).protocol: the scheme in lower case with its colon; "throws"
\* where the constructor throws a TypeError
UrlProtocol(url) ==
    CASE url = "http://a.test/" -> "http:"
      [] url = "https://a.test/" -> "https:"
      [] url = "HTTP://A.TEST/" -> "http:"
      [] url = "file:///etc/passwd" -> "file:"
      [] url = "javascript:alert(1)" -> "javascript:"
      [] url = "data:text/html,a" -> "data:"
      [] OTHER -> "throws"

\* the lengths of the selectors and of the scripts a tool is called with
SelectorLengths == {1, MAX_SELECTOR_SIZE, MAX_SELECTOR_SIZE + 1}
ScriptLengths == {1, MAX_SCRIPT_SIZE, MAX_SCRIPT_SIZE + 1}

\* validateUrl inside navigate's try: the error of the result navigate
\* returns, NoError when the URL passes
validateUrl(url) ==
    IF UrlProtocol(url) = "throws" THEN [text |-> "Invalid URL", arg |-> 0]
    ELSE IF UrlProtocol(url) # "http:" /\ UrlProtocol(url) # "https:"
    THEN [text |-> "Invalid URL: Unsupported URL protocol", arg |-> 0]
    ELSE NoError

\* the error of the result validateSelector returns, NoError for null
validateSelector(selector) ==
    IF selector > MAX_SELECTOR_SIZE
    THEN [text |-> "Selector exceeds maximum size", arg |-> MAX_SELECTOR_SIZE]
    ELSE NoError

\* evaluate's test of its script
validateScript(script) ==
    IF script > MAX_SCRIPT_SIZE
    THEN [text |-> "Script exceeds maximum size", arg |-> MAX_SCRIPT_SIZE]
    ELSE NoError

\* the result of executeTools' own catch block: reading .length of an
\* undefined argument throws outside the try block of the tool
ToolExecutionFailedError == [text |-> "Tool execution failed", arg |-> 0]

\* Per tool of the switch: what it validates before getInstance ("url",
\* "selector", "optional selector", "script" or nothing), the engine calls
\* it awaits in order, and the text its catch block puts before the message.
ToolTable ==
    [browser_navigate |->
        [validates |-> "url", engine |-> <<"goto", "title">>,
         failed |-> "Navigation failed"],
     browser_go_back |->
        [validates |-> "", engine |-> <<"goBack">>,
         failed |-> "Go back failed"],
     browser_go_forward |->
        [validates |-> "", engine |-> <<"goForward">>,
         failed |-> "Go forward failed"],
     browser_refresh |->
        [validates |-> "", engine |-> <<"reload">>,
         failed |-> "Refresh failed"],
     browser_click |->
        [validates |-> "selector", engine |-> <<"click">>,
         failed |-> "Click failed"],
     browser_type |->
        [validates |-> "selector", engine |-> <<"pressSequentially">>,
         failed |-> "Type failed"],
     browser_fill |->
        [validates |-> "selector", engine |-> <<"fill">>,
         failed |-> "Fill failed"],
     browser_select_option |->
        [validates |-> "selector", engine |-> <<"selectOption">>,
         failed |-> "Select option failed"],
     browser_get_page_info |->
        [validates |-> "",
         engine |-> <<"title", "content", "evaluate", "evaluate">>,
         failed |-> "Get page info failed"],
     browser_get_element_text |->
        [validates |-> "selector", engine |-> <<"textContent">>,
         failed |-> "Get element text failed"],
     browser_get_element_attribute |->
        [validates |-> "selector", engine |-> <<"getAttribute">>,
         failed |-> "Get element attribute failed"],
     browser_screenshot |->
        [validates |-> "optional selector", engine |-> <<"screenshot">>,
         failed |-> "Screenshot failed"],
     browser_wait_for_element |->
        [validates |-> "selector", engine |-> <<"waitForSelector">>,
         failed |-> "Wait for element failed"],
     browser_wait_for_navigation |->
        [validates |-> "", engine |-> <<"waitForEvent">>,
         failed |-> "Wait for navigation failed"],
     browser_evaluate |->
        [validates |-> "script", engine |-> <<"evaluate">>,
         failed |-> "Evaluate failed"],
     browser_get_markdown |->
        [validates |-> "", engine |-> <<"evaluate", "title">>,
         failed |-> "Get markdown failed"]]

PageTools == DOMAIN ToolTable

\* a name the switch has no case for
UnknownTool == "browser_unknown"

\* the tools that take a selector, and those for which it is optional
SelectorTools ==
    {name \in PageTools : ToolTable[name].validates = "selector"}

OptionalSelectorTools == {"browser_screenshot", "browser_get_markdown"}

\* The arguments a tool is called with: the fields it does not take are
\* undefined.
ToolArgs(id, url, selector, script) ==
    [instanceId |-> id, url |-> url, selector |-> selector, script |-> script]

ToolInputs(name) ==
    IF name = "browser_navigate"
    THEN {ToolArgs(id, url, Undefined, Undefined) : id \in Ids, url \in Urls}
    ELSE IF name \in SelectorTools \cup OptionalSelectorTools
    THEN {ToolArgs(id, "", selector, Undefined) :
            id \in Ids, selector \in SelectorLengths \cup {Undefined}}
    ELSE IF name = "browser_evaluate"
    THEN {ToolArgs(id, "", Undefined, script) :
            id \in Ids, script \in ScriptLengths \cup {Undefined}}
    ELSE {ToolArgs(id, "", Undefined, Undefined) : id \in Ids}

\* What a tool does with its arguments before it calls getInstance: the
\* error of the result it returns at once, NoError when it goes on.
Validation(name, args) ==
    CASE ToolTable[name].validates = "url" -> validateUrl(args.url)
      [] ToolTable[name].validates = "selector" ->
            IF args.selector = Undefined THEN ToolExecutionFailedError
            ELSE validateSelector(args.selector)
      [] ToolTable[name].validates = "optional selector" ->
            IF args.selector = Undefined THEN NoError
            ELSE validateSelector(args.selector)
      [] ToolTable[name].validates = "script" ->
            IF args.script = Undefined THEN ToolExecutionFailedError
            ELSE validateScript(args.script)
      [] OTHER -> NoError

\* the engine calls of a tool call: a screenshot of an element asks for
\* the element first
EngineCalls(name, args) ==
    IF name = "browser_screenshot" /\ args.selector # Undefined
    THEN <<"$", "element.screenshot">>
    ELSE ToolTable[name].engine

\* the ToolResult of an executeTools call, with the call it answers
ToolResult(t, name, args, success, error, id) ==
    [op |-> "executeTools", caller |-> t, arg |-> args.instanceId,
     success |-> success, error |-> error, instanceId |-> id,
     closedCount |-> 0, tool |-> name, args |-> args]

\* executeTools(name, args) up to its first await or, when it makes no
\* engine call, to its return.
ExecuteTools(t, name, args) ==
    /\ tools[t].pc = "idle"
    /\ IF name \notin PageTools
       THEN /\ ret' = ToolResult(t, name, args, FALSE,
                                 [text |-> "Unknown tool", arg |-> 0], 0)
            /\ UNCHANGED <<tools, instances>>
       ELSE IF Validation(name, args) # NoError
       THEN /\ ret' = ToolResult(t, name, args, FALSE, Validation(name, args),
                                 0)
            /\ UNCHANGED <<tools, instances>>
       ELSE IF args.instanceId \notin Registered
       THEN /\ ret' = ToolResult(t, name, args, FALSE,
                                 NotFoundError(args.instanceId), 0)
            /\ UNCHANGED <<tools, instances>>
       ELSE /\ instances' = Touched(args.instanceId)
            /\ tools' = [tools EXCEPT ![t] =
                   [pc |-> "engine", name |-> name, args |-> args,
                    issued |-> <<Head(EngineCalls(name, args))>>,
                    todo |-> Tail(EngineCalls(name, args))]]
            /\ ret' = NoResult
    /\ UNCHANGED <<limit, processEnv, detection, environment, detectedProxy,
                   calls, cleanupTimer, destroy, pages, operationLocks,
                   proxyInitialized, nextId, now, creators, closers, closeAll,
                   sweeps, handles>>

\* The awaited engine call resolves: the tool issues its next engine call
\* or returns its data.
ToolEngineResolved(t) ==
    /\ tools[t].pc = "engine"
    /\ IF tools[t].todo = <<>>
       THEN /\ tools' = [tools EXCEPT ![t] = IdleTool]
            /\ ret' = ToolResult(t, tools[t].name, tools[t].args, TRUE, NoError,
                                 tools[t].args.instanceId)
       ELSE /\ tools' = [tools EXCEPT
                   ![t].issued = Append(@, Head(tools[t].todo)),
                   ![t].todo = Tail(@)]
            /\ ret' = NoResult
    /\ UNCHANGED <<limit, processEnv, detection, environment, detectedProxy,
                   calls, cleanupTimer, destroy, pages, instances,
                   operationLocks, proxyInitialized, nextId, now, creators,
                   closers, closeAll, sweeps, handles>>

\* page.$(selector) resolves with null: screenshot returns a failure
\* without asking for the image.
ToolElementMissing(t) ==
    /\ tools[t].pc = "engine"
    /\ tools[t].issued = <<"$">>
    /\ tools' = [tools EXCEPT ![t] = IdleTool]
    /\ ret' = ToolResult(t, tools[t].name, tools[t].args, FALSE,
                         [text |-> "Element not found", arg |-> 0],
                         tools[t].args.instanceId)
    /\ UNCHANGED <<limit, processEnv, detection, environment, detectedProxy,
                   calls, cleanupTimer, destroy, pages, instances,
                   operationLocks, proxyInitialized, nextId, now, creators,
                   closers, closeAll, sweeps, handles>>

\* the error of a tool's catch block without the message
ToolFailedErrorBare(name, message) ==
    [text |-> ToolTable[name].failed, arg |-> 0]

\* `${what} failed: ${error.message}`
ToolFailedError(name, message) ==
    [text |-> ToolTable[name].failed, arg |-> message]

\* The awaited engine call rejects (an engine error or a timeout): the
\* catch block of the tool returns success: false.
ToolEngineFailed(t, message) ==
    /\ tools[t].pc = "engine"
    /\ tools' = [tools EXCEPT ![t] = IdleTool]
    /\ ret' = ToolResult(t, tools[t].name, tools[t].args, FALSE,
                         ToolFailedError(tools[t].name, message),
                         tools[t].args.instanceId)
    /\ UNCHANGED <<limit, processEnv, detection, environment, detectedProxy,
                   calls, cleanupTimer, destroy, pages, instances,
                   operationLocks, proxyInitialized, nextId, now, creators,
                   closers, closeAll, sweeps, handles>>

(***************************************************************************)
(* listInstances, and isInstanceLocked as a call of its own.               *)
(***************************************************************************)
\* no options
NoOptions == <<>>

\* the list of listInstances, in Map order: of each instance its id and its
\* lastUsed
InstanceList ==
    [i \in 1..Cardinality(Registered) |->
        [id |-> InOrder(Registered)[i],
         lastUsed |-> instances[InOrder(Registered)[i]].lastUsed]]

ListInstances ==
    /\ ret' = DataResult("listInstances", 0, NoOptions, 0,
                  [instances |-> InstanceList,
                   totalCount |-> Cardinality(Registered),
                   maxInstances |-> maxInstances])
    /\ UNCHANGED <<limit, processEnv, detection, environment, detectedProxy,
                   calls, tools, cleanupTimer, destroy, pages, instances,
                   operationLocks, proxyInitialized, nextId, now, creators,
                   closers, closeAll, sweeps, handles>>

IsInstanceLockedCall(id) ==
    /\ ret' = DataResult("isInstanceLocked", id, NoOptions, 0,
                         isInstanceLocked(id))
    /\ UNCHANGED <<limit, processEnv, detection, environment, detectedProxy,
                   calls, tools, cleanupTimer, destroy, pages, instances,
                   operationLocks, proxyInitialized, nextId, now, creators,
                   closers, closeAll, sweeps, handles>>

(***************************************************************************)
(* getConsoleLogs.  An option that is not given is modelled by the falsy   *)
(* value the code's tests treat alike: "" for a string, 0 for the limit,   *)
(* FALSE for a flag.                                                       *)
(***************************************************************************)
\* the values callers pass as options.type and as options.limit
TypeOptions == {"", "log", "error"}
LimitOptions == {-1, 0, 1, 2}

\* if (options?.type) logs = logs.filter((entry) => entry.type === options.type)
Filtered(logs, field, value) ==
    IF value # "" THEN SelectSeq(logs, LAMBDA e : e[field] = value) ELSE logs

\* Limited that takes the first entries instead of the last
LimitedFromHead(logs, n) ==
    IF n # 0 /\ n > 0 /\ Len(logs) > n THEN SubSeq(logs, 1, n) ELSE logs

\* if (options?.limit && options.limit > 0) logs = logs.slice(-options.limit)
Limited(logs, n) == IF n # 0 /\ n > 0 THEN LastN(logs, n) ELSE logs

\* ConsoleLogsAfter that leaves the buffer as it is
ConsoleLogsAfterKeeps(id, clear) == instances[id].consoleLogs

\* the buffer after the call: if (cleared) consoleLogs.length = 0
ConsoleLogsAfter(id, clear) ==
    IF clear THEN <<>> ELSE instances[id].consoleLogs

GetConsoleLogs(id, type, n, clear) ==
    /\ IF id \notin Registered
       THEN /\ instances' = instances
            /\ ret' = Result("getConsoleLogs", 0, id, FALSE, NotFoundError(id),
                             0, 0)
       ELSE LET logs == Limited(Filtered(instances[id].consoleLogs, "type",
                                         type), n)
            IN /\ instances' = [instances EXCEPT ![id].consoleLogs =
                                    ConsoleLogsAfter(id, clear)]
               /\ ret' = DataResult("getConsoleLogs", id,
                             [type |-> type, limit |-> n, clear |-> clear], id,
                             [logs |-> logs,
                              totalEntries |-> Len(instances[id].consoleLogs),
                              returnedEntries |-> Len(logs),
                              filtered |-> type # "",
                              cleared |-> clear])
    /\ UNCHANGED <<limit, processEnv, detection, environment, detectedProxy,
                   calls, tools, cleanupTimer, destroy, pages, operationLocks,
                   proxyInitialized, nextId, now, creators, closers, closeAll,
                   sweeps, handles>>

(***************************************************************************)
(* getNetworkLogs and getResponseBody.                                     *)
(***************************************************************************)
\* the values callers pass as options.resourceType
ResourceTypeOptions == {"", "xhr", "image"}

\* StripBody that returns the entries as they are stored
StripBodyKeeps(entries) == entries

\* stripBody: the entries without their cachedBody
StripBody(entries) ==
    [i \in 1..Len(entries) |->
        [f \in DOMAIN entries[i] \ {"cachedBody"} |-> entries[i][f]]]

\* AssetLogsAfter that clears the asset buffer whenever clear is set
AssetLogsAfterClearsAlways(id, includeAssets, clear) ==
    IF clear THEN <<>> ELSE instances[id].networkAssetLogs

\* the asset buffer after the call:
\* if (cleared) { ...; if (options?.includeAssets) assetLogs.length = 0 }
AssetLogsAfter(id, includeAssets, clear) ==
    IF clear /\ includeAssets THEN <<>> ELSE instances[id].networkAssetLogs

\* the API buffer after the call: if (cleared) apiLogs.length = 0
ApiLogsAfter(id, clear) ==
    IF clear THEN <<>> ELSE instances[id].networkApiLogs

\* the data of the response: the three asset keys are set only when
\* options.includeAssets is
NetworkData(id, includeAssets, resourceType, n, clear) ==
    LET apiLogs == instances[id].networkApiLogs
        assetLogs == instances[id].networkAssetLogs
        filteredApiLogs ==
            Limited(Filtered(apiLogs, "resourceType", resourceType), n)
        filteredAssetLogs ==
            Limited(Filtered(IF includeAssets THEN assetLogs ELSE <<>>,
                             "resourceType", resourceType), n)
        data == [apiLogs |-> StripBody(filteredApiLogs),
                 totalApiEntries |-> Len(apiLogs),
                 returnedApiEntries |-> Len(filteredApiLogs),
                 filtered |-> resourceType # "",
                 cleared |-> clear]
    IN IF includeAssets
       THEN [apiLogs |-> data.apiLogs,
             totalApiEntries |-> data.totalApiEntries,
             returnedApiEntries |-> data.returnedApiEntries,
             filtered |-> data.filtered,
             cleared |-> data.cleared,
             assetLogs |-> StripBody(filteredAssetLogs),
             totalAssetEntries |-> Len(assetLogs),
             returnedAssetEntries |-> Len(filteredAssetLogs)]
       ELSE data

GetNetworkLogs(id, includeAssets, resourceType, n, clear) ==
    /\ IF id \notin Registered
       THEN /\ instances' = instances
            /\ ret' = Result("getNetworkLogs", 0, id, FALSE, NotFoundError(id),
                             0, 0)
       ELSE /\ instances' = [instances EXCEPT
                   ![id].networkApiLogs = ApiLogsAfter(id, clear),
                   ![id].networkAssetLogs =
                       AssetLogsAfter(id, includeAssets, clear)]
            /\ ret' = DataResult("getNetworkLogs", id,
                          [includeAssets |-> includeAssets,
                           resourceType |-> resourceType,
                           limit |-> n, clear |-> clear], id,
                          NetworkData(id, includeAssets, resourceType, n,
                                      clear))
    /\ UNCHANGED <<limit, processEnv, detection, environment, detectedProxy,
                   calls, tools, cleanupTimer, destroy, pages, operationLocks,
                   proxyInitialized, nextId, now, creators, closers, closeAll,
                   sweeps, handles>>

\* the entries getResponseBody searches, in search order: the API buffer,
\* then the asset buffer
AllLogs(id) == instances[id].networkApiLogs \o instances[id].networkAssetLogs

\* BodyMatches that takes an entry without a cached body for a match
BodyMatchesUncached(logs, target) ==
    SelectSeq(logs, LAMBDA entry : /\ entry.method = target.method
                                   /\ entry.url = target.url)

\* the entries of `logs` the loop of getResponseBody assigns to `match`
BodyMatches(logs, target) ==
    SelectSeq(logs, LAMBDA entry : /\ entry.method = target.method
                                   /\ entry.url = target.url
                                   /\ entry.cachedBody # NoBody)

\* data of getResponseBody: the last assignment to `match` wins
ResponseBodyData(id, target) ==
    LET matches == BodyMatches(AllLogs(id), target)
    IN IF matches = <<>>
       THEN [found |-> FALSE, method |-> target.method, url |-> target.url]
       ELSE LET match == matches[Len(matches)]
            IN [found |-> TRUE, url |-> match.url, method |-> match.method,
                body |-> match.cachedBody, contentLength |-> match.cachedBody]

\* GetResponseBody that answers for an unknown id as for a session without
\* a matching entry
GetResponseBodyUnchecked(id, target) ==
    /\ ret' = IF id \notin Registered
              THEN DataResult("getResponseBody", id, target, id,
                              [found |-> FALSE, method |-> target.method,
                               url |-> target.url])
              ELSE DataResult("getResponseBody", id, target, id,
                              ResponseBodyData(id, target))
    /\ UNCHANGED <<limit, processEnv, detection, environment, detectedProxy,
                   calls, tools, cleanupTimer, destroy, pages, instances,
                   operationLocks, proxyInitialized, nextId, now, creators,
                   closers, closeAll, sweeps, handles>>

GetResponseBody(id, target) ==
    /\ ret' = IF id \notin Registered
              THEN Result("getResponseBody", 0, id, FALSE, NotFoundError(id),
                          0, 0)
              ELSE DataResult("getResponseBody", id, target, id,
                              ResponseBodyData(id, target))
    /\ UNCHANGED <<limit, processEnv, detection, environment, detectedProxy,
                   calls, tools, cleanupTimer, destroy, pages, instances,
                   operationLocks, proxyInitialized, nextId, now, creators,
                   closers, closeAll, sweeps, handles>>

(***************************************************************************)
(* acquireOperationLock and the release function it returns.  A handle     *)
(* is one returned release function: the id it closes over, whether it has *)
(* been invoked, and whether the id had no lock when it was acquired.  A   *)
(* release function may be invoked any number of times.                    *)
(***************************************************************************)
\* AcquireOperationLock without the lookup of the instance
AcquireWithoutLookup(id) ==
    /\ Len(handles) < limit.handles
    /\ operationLocks' = LocksAfterAcquire(id)
    /\ handles' = Append(handles,
           [id |-> id, invoked |-> FALSE, alone |-> ~isInstanceLocked(id)])
    /\ ret' = Result("acquireOperationLock", 0, id, TRUE, NoError, 0, 0)
    /\ UNCHANGED <<limit, processEnv, detection, environment, detectedProxy,
                   calls, tools, cleanupTimer, destroy, pages, instances,
                   proxyInitialized, nextId, now, creators, closers, closeAll,
                   sweeps>>

AcquireOperationLock(id) ==
    /\ IF id \notin Registered
       THEN /\ operationLocks' = operationLocks
            /\ handles' = handles
            /\ ret' = Result("acquireOperationLock", 0, id, FALSE, NoError, 0, 0)
       ELSE /\ Len(handles) < limit.handles
            /\ operationLocks' = LocksAfterAcquire(id)
            /\ handles' = Append(handles,
                   [id |-> id, invoked |-> FALSE,
                    alone |-> ~isInstanceLocked(id)])
            /\ ret' = Result("acquireOperationLock", 0, id, TRUE, NoError, 0, 0)
    /\ UNCHANGED <<limit, processEnv, detection, environment, detectedProxy,
                   calls, tools, cleanupTimer, destroy, pages, instances,
                   proxyInitialized, nextId, now, creators, closers, closeAll,
                   sweeps>>

Release(h) ==
    /\ operationLocks' = LocksAfterRelease(handles[h].id)
    /\ handles' = [handles EXCEPT ![h].invoked = TRUE]
    /\ ret' = NoResult
    /\ UNCHANGED <<limit, processEnv, detection, environment, detectedProxy,
                   calls, tools, cleanupTimer, destroy, pages, instances,
                   proxyInitialized, nextId, now, creators, closers, closeAll,
                   sweeps>>

\* A release function that is invoked for the first time.
ReleaseOnce(h) ==
    /\ ~handles[h].invoked
    /\ Release(h)

(***************************************************************************)
(* closeInstance.  Position "teardown": await instance.browser.close().    *)
(***************************************************************************)
\* The call: the lookup, then the call of browser.close().
CloseCall(k, id) ==
    /\ closers[k].pc = "idle"
    /\ IF id \notin Registered
       THEN /\ closers' = closers
            /\ ret' = Result("closeInstance", k, id, FALSE, NotFoundError(id), 0, 0)
       ELSE /\ closers' = [closers EXCEPT ![k] = [pc |-> "teardown", id |-> id]]
            /\ ret' = NoResult
    /\ UNCHANGED <<limit, processEnv, detection, environment, detectedProxy,
                   calls, tools, cleanupTimer, destroy, pages, instances,
                   operationLocks, proxyInitialized, nextId, now, creators,
                   closeAll, sweeps, handles>>

\* AfterTeardownOk without the delete
AfterTeardownKeepsEntry(id) == instances

\* The registry after closeInstance's code that follows a resolved
\* browser.close(): this.instances.delete(instanceId)
AfterTeardownOk(id) == Without(instances, id)

\* The registry after closeInstance's catch block (browser.close() rejected)
AfterTeardownFailed(id) == instances

CloseTeardownOk(k) ==
    /\ closers[k].pc = "teardown"
    /\ instances' = AfterTeardownOk(closers[k].id)
    /\ closers' = [closers EXCEPT ![k] = IdleCloser]
    /\ ret' = Result("closeInstance", k, closers[k].id, TRUE, NoError, closers[k].id, 0)
    /\ UNCHANGED <<limit, processEnv, detection, environment, detectedProxy,
                   calls, tools, cleanupTimer, destroy, pages, operationLocks,
                   proxyInitialized, nextId, now, creators, closeAll, sweeps,
                   handles>>

CloseTeardownFailed(k) ==
    /\ closers[k].pc = "teardown"
    /\ instances' = AfterTeardownFailed(closers[k].id)
    /\ closers' = [closers EXCEPT ![k] = IdleCloser]
    /\ ret' = Result("closeInstance", k, closers[k].id, FALSE, CloseFailedError, 0, 0)
    /\ UNCHANGED <<limit, processEnv, detection, environment, detectedProxy,
                   calls, tools, cleanupTimer, destroy, pages, operationLocks,
                   proxyInitialized, nextId, now, creators, closeAll, sweeps,
                   handles>>

(***************************************************************************)
(* closeAllInstances.  `entries` is the snapshot Array.from(entries());    *)
(* `pending` the entries whose browser.close() has not settled; settledOk  *)
(* those whose browser.close() resolved; `removed` those whose             *)
(* this.instances.delete(id) of this call removed an entry.  The record of  *)
(* a call is kept until the next call.                                     *)
(***************************************************************************)
\* entries.map(async ...) calls browser.close() of every entry; the call
\* then awaits Promise.allSettled.
CloseAllCall ==
    /\ closeAll.pc = "idle"
    /\ closeAll' = [pc |-> "settling", entries |-> Registered,
                    pending |-> Registered, settledOk |-> {}, removed |-> {}]
    /\ ret' = NoResult
    /\ UNCHANGED <<limit, processEnv, detection, environment, detectedProxy,
                   calls, tools, cleanupTimer, destroy, pages, instances,
                   operationLocks, proxyInitialized, nextId, now, creators,
                   closers, sweeps, handles>>

\* One resolved close promise: this.instances.delete(id)
CloseAllTeardownOk(id) ==
    /\ closeAll.pc = "settling"
    /\ id \in closeAll.pending
    /\ instances' = Without(instances, id)
    /\ closeAll' = [closeAll EXCEPT !.pending = @ \ {id},
                                    !.settledOk = @ \cup {id},
                                    !.removed = @ \cup ({id} \cap Registered)]
    /\ ret' = NoResult
    /\ UNCHANGED <<limit, processEnv, detection, environment, detectedProxy,
                   calls, tools, cleanupTimer, destroy, pages, operationLocks,
                   proxyInitialized, nextId, now, creators, closers, sweeps,
                   handles>>

\* One rejected close promise, were the promises awaited with Promise.all:
\* the await throws at once and the catch block returns success=false.
CloseAllTeardownFailedAborts(id) ==
    /\ closeAll.pc = "settling"
    /\ id \in closeAll.pending
    /\ closeAll' = [closeAll EXCEPT !.pc = "idle", !.pending = @ \ {id}]
    /\ ret' = Result("closeAllInstances", 0, 0, FALSE,
                     [text |-> "Failed to close all instances", arg |-> 0], 0, 0)
    /\ UNCHANGED <<limit, processEnv, detection, environment, detectedProxy,
                   calls, tools, cleanupTimer, destroy, pages, instances,
                   operationLocks, proxyInitialized, nextId, now, creators,
                   closers, sweeps, handles>>

\* One rejected close promise: Promise.allSettled records it and waits on.
CloseAllTeardownFailed(id) ==
    /\ closeAll.pc = "settling"
    /\ id \in closeAll.pending
    /\ closeAll' = [closeAll EXCEPT !.pending = @ \ {id}]
    /\ ret' = NoResult
    /\ UNCHANGED <<limit, processEnv, detection, environment, detectedProxy,
                   calls, tools, cleanupTimer, destroy, pages, instances,
                   operationLocks, proxyInitialized, nextId, now, creators,
                   closers, sweeps, handles>>

\* const closedCount = entries.length
closedCount == Cardinality(closeAll.entries)

\* Promise.allSettled resolved: the call returns.
CloseAllReturn ==
    /\ closeAll.pc = "settling"
    /\ closeAll.pending = {}
    /\ destroy # "closing"
    /\ ret' = Result("closeAllInstances", 0, 0, TRUE, NoError, 0, closedCount)
    /\ closeAll' = [closeAll EXCEPT !.pc = "idle"]
    /\ UNCHANGED <<limit, processEnv, detection, environment, detectedProxy,
                   calls, tools, cleanupTimer, destroy, pages, instances,
                   operationLocks, proxyInitialized, nextId, now, creators,
                   closers, sweeps, handles>>

(***************************************************************************)
(* cleanupInactiveInstances, run by the setInterval timer.  A Map iterates *)
(* in insertion order, which is the order of the ids: an id is generated   *)
(* and stored in the same synchronous stretch of createInstance.           *)
(* A sweep keeps, next to its list instancesToClose, what its scan read of *)
(* every instance (its lock and its idle time), until it ends.             *)
(***************************************************************************)
\* Expired with the comparison off by one (>= for >)
ExpiredAtTimeout(id) == now - instances[id].lastUsed >= instanceTimeout

\* timeSinceLastUsed > this.config.instanceTimeout
Expired(id) == now - instances[id].lastUsed > instanceTimeout

\* Marked without the test of the lock
MarkedThoughLocked(id) == Expired(id)

\* the scan's test of one instance: skipped when locked, pushed when expired
Marked(id) == ~isInstanceLocked(id) /\ Expired(id)

instancesToClose == InOrder({id \in Registered : Marked(id)})

\* what the scan reads: isInstanceLocked(id) and timeSinceLastUsed
ScanRead ==
    [id \in Registered |-> [locked |-> isInstanceLocked(id),
                            idle |-> now - instances[id].lastUsed]]

\* The timer fires: the scan, and closeInstance for the first marked id (its
\* lookup succeeds, the id was just read from the registry) up to its await.
SweepStart(s) ==
    /\ cleanupTimer
    /\ sweeps[s].pc = "idle"
    /\ sweeps' = [sweeps EXCEPT ![s] =
           IF instancesToClose = <<>> THEN IdleSweep
           ELSE [pc |-> "teardown", toClose |-> instancesToClose,
                 scan |-> ScanRead]]
    /\ ret' = NoResult
    /\ UNCHANGED <<limit, processEnv, detection, environment, detectedProxy,
                   calls, tools, cleanupTimer, destroy, pages, instances,
                   operationLocks, proxyInitialized, nextId, now, creators,
                   closers, closeAll, handles>>

\* SweepAfter with the loop left at the first closeInstance that returned
SweepAfterAborts(s) == IdleSweep

\* What a sweep does after closeInstance returned for the head of toClose.
SweepAfter(s) ==
    IF Len(sweeps[s].toClose) = 1 THEN IdleSweep
    ELSE [sweeps[s] EXCEPT !.pc = "next", !.toClose = Tail(sweeps[s].toClose)]

SweepTeardownOk(s) ==
    /\ sweeps[s].pc = "teardown"
    /\ instances' = AfterTeardownOk(Head(sweeps[s].toClose))
    /\ sweeps' = [sweeps EXCEPT ![s] = SweepAfter(s)]
    /\ ret' = Result("closeInstance", -s, Head(sweeps[s].toClose), TRUE, NoError,
                     Head(sweeps[s].toClose), 0)
    /\ UNCHANGED <<limit, processEnv, detection, environment, detectedProxy,
                   calls, tools, cleanupTimer, destroy, pages, operationLocks,
                   proxyInitialized, nextId, now, creators, closers, closeAll,
                   handles>>

SweepTeardownFailed(s) ==
    /\ sweeps[s].pc = "teardown"
    /\ instances' = AfterTeardownFailed(Head(sweeps[s].toClose))
    /\ sweeps' = [sweeps EXCEPT ![s] = SweepAfter(s)]
    /\ ret' = Result("closeInstance", -s, Head(sweeps[s].toClose), FALSE,
                     CloseFailedError, 0, 0)
    /\ UNCHANGED <<limit, processEnv, detection, environment, detectedProxy,
                   calls, tools, cleanupTimer, destroy, pages, operationLocks,
                   proxyInitialized, nextId, now, creators, closers, closeAll,
                   handles>>

\* The loop's next iteration: closeInstance for the next marked id.
SweepNext(s) ==
    /\ sweeps[s].pc = "next"
    /\ IF Head(sweeps[s].toClose) \notin Registered
       THEN /\ sweeps' = [sweeps EXCEPT ![s] = SweepAfter(s)]
            /\ ret' = Result("closeInstance", -s, Head(sweeps[s].toClose),
                             FALSE, NotFoundError(Head(sweeps[s].toClose)),
                             0, 0)
       ELSE /\ sweeps' = [sweeps EXCEPT ![s].pc = "teardown"]
            /\ ret' = NoResult
    /\ UNCHANGED <<limit, processEnv, detection, environment, detectedProxy,
                   calls, tools, cleanupTimer, destroy, pages, instances,
                   operationLocks, proxyInitialized, nextId, now, creators,
                   closers, closeAll, handles>>

(***************************************************************************)
(* destroy.  Positions of the call: "idle" (not called), "closing" (await  *)
(* this.closeAllInstances()), "destroyed" (returned).                      *)
(***************************************************************************)
\* clearInterval(this.cleanupTimer), then closeAllInstances up to its await
DestroyCall ==
    /\ limit.destroys > 0
    /\ destroy = "idle"
    /\ closeAll.pc = "idle"
    /\ cleanupTimer' = FALSE
    /\ closeAll' = [pc |-> "settling", entries |-> Registered,
                    pending |-> Registered, settledOk |-> {}, removed |-> {}]
    /\ destroy' = "closing"
    /\ ret' = NoResult
    /\ UNCHANGED <<limit, processEnv, detection, environment, detectedProxy,
                   calls, tools, pages, instances, operationLocks,
                   proxyInitialized, nextId, now, creators, closers, sweeps,
                   handles>>

\* closeAllInstances returned: destroy returns.
DestroyReturn ==
    /\ destroy = "closing"
    /\ closeAll.pc = "settling"
    /\ closeAll.pending = {}
    /\ closeAll' = [closeAll EXCEPT !.pc = "idle"]
    /\ destroy' = "destroyed"
    /\ ret' = Result("destroy", 0, 0, TRUE, NoError, 0, 0)
    /\ UNCHANGED <<limit, processEnv, detection, environment, detectedProxy,
                   calls, tools, cleanupTimer, pages, instances,
                   operationLocks, proxyInitialized, nextId, now, creators,
                   closers, sweeps, handles>>

(***************************************************************************)
(* The operations, grouped.                                                *)
(***************************************************************************)
CreateStep ==
    \/ \E c \in 1..limit.creators, browserConfig \in BrowserConfigs :
          CreateCall(c, browserConfig)
    \/ \E c \in 1..limit.creators : CreateCheck(c)
    \/ \E c \in 1..limit.creators : CreateLaunched(c)
    \/ \E c \in 1..limit.creators : CreateContextOpened(c)
    \/ \E c \in 1..limit.creators : CreatePageOpened(c)
    \/ \E c \in 1..limit.creators, message \in EngineMessages :
          CreateEngineFailed(c, message)

ToolStep ==
    \/ \E t \in 1..limit.tools, name \in PageTools \cup {UnknownTool} :
          \E args \in ToolInputs(name) : ExecuteTools(t, name, args)
    \/ \E t \in 1..limit.tools : ToolEngineResolved(t)
    \/ \E t \in 1..limit.tools : ToolElementMissing(t)
    \/ \E t \in 1..limit.tools, message \in EngineMessages :
          ToolEngineFailed(t, message)

DestroyStep ==
    \/ DestroyCall
    \/ DestroyReturn

LockStep ==
    \/ \E id \in Ids : AcquireOperationLock(id)
    \/ \E h \in 1..Len(handles) : Release(h)

CloseStep ==
    \/ \E k \in 1..limit.closers, id \in Ids : CloseCall(k, id)
    \/ \E k \in 1..limit.closers : CloseTeardownOk(k)
    \/ \E k \in 1..limit.closers : CloseTeardownFailed(k)

CloseAllStep ==
    \/ CloseAllCall
    \/ \E id \in Ids : CloseAllTeardownOk(id)
    \/ \E id \in Ids : CloseAllTeardownFailed(id)
    \/ CloseAllReturn

SweepStep ==
    \/ \E s \in 1..limit.sweeps : SweepStart(s)
    \/ \E s \in 1..limit.sweeps : SweepTeardownOk(s)
    \/ \E s \in 1..limit.sweeps : SweepTeardownFailed(s)
    \/ \E s \in 1..limit.sweeps : SweepNext(s)

(***************************************************************************)
(* The specification of the manager: sessions, locks, closes and sweeps.   *)
(* The listeners and the log queries act on the buffers of a session only; *)
(* the specifications of the buffers follow.                               *)
(***************************************************************************)
SpecIds == 2
SpecCreators == 1
SpecClosers == 1
SpecSweeps == 1
SpecHandles == 1
SpecTime == 2

Next ==
    \/ InitializeProxyDone
    \/ Tick
    \/ CreateStep
    \/ \E id \in Ids : GetInstance(id)
    \/ LockStep
    \/ CloseStep
    \/ CloseAllStep
    \/ SweepStep

Spec ==
    /\ Init(Limits(SpecIds, SpecCreators, SpecClosers, SpecSweeps,
                   SpecHandles, SpecTime))
    /\ [][Next]_vars

(***************************************************************************)
(* Specifications of parts of the manager: the operations that act on the  *)
(* state a property reads, each with the bounds its cases need.  The       *)
(* variables of the other operations keep their initial values.            *)
(***************************************************************************)
\* admission and closing: createInstance, closeInstance, closeAllInstances
LifecycleIds == 3
LifecycleCreators == 2
LifecycleClosers == 1

NextLifecycle ==
    \/ InitializeProxyDone
    \/ CreateStep
    \/ CloseStep
    \/ CloseAllStep

SpecLifecycle ==
    /\ Init(Limits(LifecycleIds, LifecycleCreators, LifecycleClosers, 0, 0, 0))
    /\ [][NextLifecycle]_vars

\* admission next to the lock table: createInstance, closeInstance, locks
AdmissionIds == 3
AdmissionCreators == 2
AdmissionClosers == 1
AdmissionHandles == 1

NextAdmission ==
    \/ InitializeProxyDone
    \/ CreateStep
    \/ CloseStep
    \/ LockStep

SpecAdmission ==
    /\ Init(Limits(AdmissionIds, AdmissionCreators, AdmissionClosers, 0,
                   AdmissionHandles, 0))
    /\ [][NextAdmission]_vars

\* the lock table: locks on instances that are created and closed
LockIds == 2
LockCreators == 1
LockClosers == 1
LockHandles == 2

NextLock ==
    \/ InitializeProxyDone
    \/ CreateStep
    \/ CloseStep
    \/ LockStep

SpecLock ==
    /\ Init(Limits(LockIds, LockCreators, LockClosers, 0, LockHandles, 0))
    /\ [][NextLock]_vars

\* the lock table when no release function is invoked a second time
LockStepOnce ==
    \/ \E id \in Ids : AcquireOperationLock(id)
    \/ \E h \in 1..Len(handles) : ReleaseOnce(h)

NextLockOnce ==
    \/ InitializeProxyDone
    \/ CreateStep
    \/ CloseStep
    \/ LockStepOnce

SpecLockOnce ==
    /\ Init(Limits(LockIds, LockCreators, LockClosers, 0, LockHandles, 0))
    /\ [][NextLockOnce]_vars

\* the console buffer: createInstance and the console listener, with few
\* messages of free content or with more messages than the buffer holds
ConsoleIds == 1
ConsoleCreators == 1
ConsoleFreeMessages == 3
ConsoleLongMessages == 1002

NextConsole ==
    \/ InitializeProxyDone
    \/ CreateStep
    \/ \E id \in Ids, type \in ConsoleTypes : ConsoleEvent(id, type)

SpecConsole ==
    /\ \/ Init(LogLimits(Limits(ConsoleIds, ConsoleCreators, 0, 0, 0, 0),
                         ConsoleFreeMessages, 0, 0, TRUE))
       \/ Init(LogLimits(Limits(ConsoleIds, ConsoleCreators, 0, 0, 0, 0),
                         ConsoleLongMessages, 0, 0, FALSE))
    /\ [][NextConsole]_vars

\* the network buffers: createInstance and the network listeners, with few
\* requests of free content or with more requests than the buffers hold
NetworkIds == 1
NetworkCreators == 1
NetworkTargets == 1
NetworkFreeRequests == 2
NetworkLongRequests == 1002

NetworkStep ==
    \/ \E id \in Ids, kind \in ResourceTypes, target \in Targets,
          text \in BOOLEAN : ResponseEvent(id, kind, target, text)
    \/ \E id \in DOMAIN pages : \E entry \in pages[id].responses :
          \E readable \in BOOLEAN, length \in BodyLengths :
              ResponseBodyRead(id, entry, readable, length)
    \/ \E id \in Ids, kind \in ResourceTypes, target \in Targets :
          RequestFailedEvent(id, kind, target)

NextNetwork ==
    \/ InitializeProxyDone
    \/ CreateStep
    \/ NetworkStep

SpecNetwork ==
    /\ \/ Init(LogLimits(Limits(NetworkIds, NetworkCreators, 0, 0, 0, 0),
                         0, NetworkFreeRequests, NetworkTargets, TRUE))
       \/ Init(LogLimits(Limits(NetworkIds, NetworkCreators, 0, 0, 0, 0),
                         0, NetworkLongRequests, NetworkTargets, FALSE))
    /\ [][NextNetwork]_vars

\* reading the console buffer: createInstance, the console listener and
\* getConsoleLogs
ConsoleLogsIds == 1
ConsoleLogsCreators == 1
ConsoleLogsMessages == 3

GetConsoleLogsStep ==
    \E id \in Ids, type \in TypeOptions, n \in LimitOptions, clear \in BOOLEAN :
        GetConsoleLogs(id, type, n, clear)

NextConsoleLogs ==
    \/ InitializeProxyDone
    \/ CreateStep
    \/ \E id \in Ids, type \in ConsoleTypes : ConsoleEvent(id, type)
    \/ GetConsoleLogsStep

SpecConsoleLogs ==
    /\ Init(LogLimits(Limits(ConsoleLogsIds, ConsoleLogsCreators, 0, 0, 0, 0),
                      ConsoleLogsMessages, 0, 0, TRUE))
    /\ [][NextConsoleLogs]_vars

\* reading the network buffers: createInstance, the network listeners and
\* getNetworkLogs
NetworkLogsIds == 1
NetworkLogsCreators == 1
NetworkLogsRequests == 2
NetworkLogsTargets == 1

GetNetworkLogsStep ==
    \E id \in Ids, includeAssets \in BOOLEAN,
       resourceType \in ResourceTypeOptions, n \in LimitOptions,
       clear \in BOOLEAN :
        GetNetworkLogs(id, includeAssets, resourceType, n, clear)

NextNetworkLogs ==
    \/ InitializeProxyDone
    \/ CreateStep
    \/ NetworkStep
    \/ GetNetworkLogsStep

SpecNetworkLogs ==
    /\ Init(LogLimits(Limits(NetworkLogsIds, NetworkLogsCreators, 0, 0, 0, 0),
                      0, NetworkLogsRequests, NetworkLogsTargets, TRUE))
    /\ [][NextNetworkLogs]_vars

\* the operations that look a session up by id, with ids that are not
\* registered yet or not registered any more: createInstance, closeInstance,
\* the listeners of the first session, locks and the three log queries
LookupIds == 2
LookupCreators == 1
LookupClosers == 1
LookupHandles == 1
LookupMessages == 1
LookupRequests == 2
LookupTargets == 1

GetResponseBodyStep ==
    \E id \in Ids, target \in Targets : GetResponseBody(id, target)

\* the events of a page that follow the pattern: a response is pushed
\* without its body being read
PatternStep ==
    \/ \E id \in Ids, type \in ConsoleTypes : ConsoleEvent(id, type)
    \/ \E id \in Ids, kind \in ResourceTypes, target \in Targets :
          ResponseEvent(id, kind, target, FALSE)
    \/ \E id \in Ids, kind \in ResourceTypes, target \in Targets :
          RequestFailedEvent(id, kind, target)

\* the log queries with no filter and no limit
QueryStep ==
    \/ \E id \in Ids, clear \in BOOLEAN : GetConsoleLogs(id, "", 0, clear)
    \/ \E id \in Ids, includeAssets \in BOOLEAN, clear \in BOOLEAN :
          GetNetworkLogs(id, includeAssets, "", 0, clear)
    \/ GetResponseBodyStep

NextLookup ==
    \/ InitializeProxyDone
    \/ CreateStep
    \/ CloseStep
    \/ LockStep
    \/ PatternStep
    \/ QueryStep

SpecLookup ==
    /\ Init(LogLimits(Limits(LookupIds, LookupCreators, LookupClosers, 0,
                             LookupHandles, 0),
                      LookupMessages, LookupRequests, LookupTargets, FALSE))
    /\ [][NextLookup]_vars

\* the registry over the life of a session: createInstance, getInstance
\* and every way a session is closed
RegistryIds == 2
RegistryCreators == 1
RegistryClosers == 2
RegistrySweeps == 1
RegistryTime == 2

NextRegistry ==
    \/ InitializeProxyDone
    \/ Tick
    \/ CreateStep
    \/ \E id \in Ids : GetInstance(id)
    \/ CloseStep
    \/ CloseAllStep
    \/ SweepStep

SpecRegistry ==
    /\ Init(Limits(RegistryIds, RegistryCreators, RegistryClosers,
                   RegistrySweeps, 0, RegistryTime))
    /\ [][NextRegistry]_vars

\* lastUsed: the clock, createInstance, closeInstance and every operation
\* that takes an id or lists the sessions
LastUsedIds == 2
LastUsedCreators == 1
LastUsedClosers == 1
LastUsedHandles == 1
LastUsedTime == 2
LastUsedTargets == 1

ReadStep ==
    \/ ListInstances
    \/ \E id \in Ids : IsInstanceLockedCall(id)

NextLastUsed ==
    \/ InitializeProxyDone
    \/ Tick
    \/ CreateStep
    \/ CloseStep
    \/ \E id \in Ids : GetInstance(id)
    \/ LockStep
    \/ ReadStep
    \/ QueryStep

SpecLastUsed ==
    /\ Init(LogLimits(Limits(LastUsedIds, LastUsedCreators, LastUsedClosers,
                             0, LastUsedHandles, LastUsedTime),
                      0, 0, LastUsedTargets, TRUE))
    /\ [][NextLastUsed]_vars

\* cached bodies: createInstance, the network listeners with the bodies
\* they read, and the log queries
BodiesIds == 1
BodiesCreators == 1
BodiesRequests == 2
BodiesTargets == 2

NextBodies ==
    \/ InitializeProxyDone
    \/ CreateStep
    \/ NetworkStep
    \/ QueryStep

SpecBodies ==
    /\ Init(LogLimits(Limits(BodiesIds, BodiesCreators, 0, 0, 0, 0),
                      0, BodiesRequests, BodiesTargets, TRUE))
    /\ [][NextBodies]_vars

\* the tools: createInstance, the console listener, the locks and
\* executeTools with every tool and its arguments at the sizes that matter
ToolsIds == 1
ToolsCreators == 1
ToolsHandles == 1
ToolsMessages == 1
ToolsCallers == 1

NextTools ==
    \/ InitializeProxyDone
    \/ CreateStep
    \/ \E id \in Ids, type \in ConsoleTypes : ConsoleEvent(id, type)
    \/ LockStep
    \/ ToolStep

SpecTools ==
    /\ Init(ToolLimits(LogLimits(Limits(ToolsIds, ToolsCreators, 0, 0,
                                        ToolsHandles, 0),
                                 ToolsMessages, 0, 0, TRUE),
                       ToolsCallers))
    /\ [][NextTools]_vars

\* the proxy: the constructor in every environment, initializeProxy, and
\* createInstance with every proxy configuration of the call
ProxyIds == 1
ProxyCreators == 1

NextProxy ==
    \/ InitializeProxyDone
    \/ CreateStep

SpecProxy ==
    /\ Init(ProxyLimits(Limits(ProxyIds, ProxyCreators, 0, 0, 0, 0)))
    /\ [][NextProxy]_vars

\* destroy: the clock, createInstance, closeAllInstances, sweeps and one
\* destroy call
DestroyIds == 2
DestroyCreators == 1
DestroySweeps == 1
DestroyTime == 2
DestroyCalls == 1

NextDestroy ==
    \/ InitializeProxyDone
    \/ Tick
    \/ CreateStep
    \/ CloseAllStep
    \/ SweepStep
    \/ DestroyStep

SpecDestroy ==
    /\ Init(DestroyLimits(Limits(DestroyIds, DestroyCreators, 0,
                                 DestroySweeps, 0, DestroyTime),
                          DestroyCalls))
    /\ [][NextDestroy]_vars

\* the detection: the constructor in every environment of one platform,
\* initializeProxy, proxy variables that change afterwards, and
\* createInstance with every proxy configuration of the call
DetectionIds == 1
DetectionCreators == 1
DetectionChanges == 1

NextDetection ==
    \/ InitializeProxyDone
    \/ \E name \in EnvNames :
          \E value \in {NoProxy, LaterValue(name)} : SetEnv(name, value)
    \/ CreateStep

SpecDetection ==
    /\ Init(EnvLimits(ProxyLimits(Limits(DetectionIds, DetectionCreators,
                                         0, 0, 0, 0)),
                      {"linux"}, DetectionChanges))
    /\ [][NextDetection]_vars

\* the merged configuration: the constructor in every environment of one
\* platform whose defaultBrowserConfig may have a proxy key, initializeProxy
\* and createInstance with every proxy configuration of the call
MergeIds == 1
MergeCreators == 1

SpecMerge ==
    /\ Init(DefaultsLimits(EnvLimits(ProxyLimits(
                Limits(MergeIds, MergeCreators, 0, 0, 0, 0)), {"linux"}, 0)))
    /\ [][NextProxy]_vars

\* the listeners: createInstance, the console and the network listeners,
\* and events whose accessors throw
ListenersIds == 1
ListenersCreators == 1
ListenersMessages == 1
ListenersRequests == 3
ListenersTargets == 1

NextListeners ==
    \/ InitializeProxyDone
    \/ CreateStep
    \/ \E id \in Ids, type \in ConsoleTypes : ConsoleEvent(id, type)
    \/ NetworkStep
    \/ \E id \in Ids, kind \in ListenerKinds : ListenerThrows(id, kind)

SpecListeners ==
    /\ Init(LogLimits(Limits(ListenersIds, ListenersCreators, 0, 0, 0, 0),
                      ListenersMessages, ListenersRequests, ListenersTargets,
                      TRUE))
    /\ [][NextListeners]_vars

\* tools and the cleanup sweep: the clock, createInstance, executeTools on
\* pages, and sweeps
BusyIds == 2
BusyCreators == 1
BusySweeps == 1
BusyTime == 2
BusyCallers == 1

NextBusy ==
    \/ InitializeProxyDone
    \/ Tick
    \/ CreateStep
    \/ ToolStep
    \/ SweepStep

SpecBusy ==
    /\ Init(ToolLimits(Limits(BusyIds, BusyCreators, 0, BusySweeps, 0,
                              BusyTime),
                       BusyCallers))
    /\ [][NextBusy]_vars

\* the cleanup sweep: the clock, createInstance, getInstance, locks, sweeps
CleanupIds == 2
CleanupCreators == 1
CleanupSweeps == 1
CleanupHandles == 1
CleanupTime == 2

NextCleanup ==
    \/ InitializeProxyDone
    \/ Tick
    \/ CreateStep
    \/ \E id \in Ids : GetInstance(id)
    \/ LockStep
    \/ SweepStep

SpecCleanup ==
    /\ Init(Limits(CleanupIds, CleanupCreators, 0, CleanupSweeps,
                   CleanupHandles, CleanupTime))
    /\ [][NextCleanup]_vars

\* The cleanup sweep under the fairness of its scheduling: the setInterval
\* timer keeps firing, every browser.close() a sweep awaits settles (it
\* resolves or rejects), and the event loop resumes the sweep's loop.
FairCleanup ==
    /\ SpecCleanup
    /\ \A s \in 1..CleanupSweeps :
          /\ WF_vars(SweepStart(s))
          /\ WF_vars(SweepTeardownOk(s) \/ SweepTeardownFailed(s))
          /\ WF_vars(SweepNext(s))

(***************************************************************************)
(* PROPERTIES                                                              *)
(***************************************************************************)

\* C1: in every reachable state the number of registered instances is at
\* most maxInstances, for every interleaving of createInstance calls (each
\* suspended on launch, newContext and newPage between its size check and
\* its insertion) with close operations.
C1_RegistryWithinCeiling == Cardinality(Registered) <= maxInstances

\* The size check of the createInstance call in slot c runs in this step.
ChecksCapacity(c) == creators[c] = "awaitProxy" /\ creators'[c] # "awaitProxy"

NoOtherCreateInFlight(c) ==
    \A d \in 1..limit.creators : d # c => creators[d] = "idle"

\* C2: a createInstance call whose size check runs while the registry holds
\* maxInstances instances and no other create is in flight returns
\* success=false with the error that carries the ceiling, does not call the
\* engine's launch, and leaves the registry and the lock table unchanged.
C2_RejectedAtCeiling ==
    [][\A c \in 1..limit.creators :
          ( /\ ChecksCapacity(c)
            /\ Cardinality(Registered) = maxInstances
            /\ NoOtherCreateInFlight(c) )
          => /\ ret' = Result("createInstance", c, 0, FALSE,
                              [text |-> "Maximum number of instances reached",
                               arg |-> maxInstances], 0, 0)
             /\ creators'[c] = "idle"
             /\ instances' = instances
             /\ operationLocks' = operationLocks]_vars

\* C2 witness: a create was rejected at the ceiling while a lock is held.
C2_Witness ==
    /\ ret.op = "createInstance"
    /\ ~ret.success
    /\ ret.error.arg = maxInstances
    /\ Cardinality(Registered) = maxInstances
    /\ \E id \in Registered : isInstanceLocked(id)

\* The closeInstance call that returned last was made for `id` and failed
\* because the teardown failed.
TeardownFailedFor(id) ==
    /\ ret.op = "closeInstance"
    /\ ret.arg = id
    /\ ~ret.success
    /\ ret.error.text = "Failed to close instance"

\* C3: when closeInstance(id) of a registered instance returns a failure
\* because the engine teardown failed, the instance is no longer registered.
C3_RemovedDespiteTeardownFailure ==
    \A id \in Ids : TeardownFailedFor(id) => id \notin Registered

\* The last closeAllInstances call has returned and nothing returned since.
CloseAllReturned == closeAll.pc = "idle" /\ ret.op = "closeAllInstances"

\* C4: closeAllInstances calls the teardown of every instance registered
\* when it starts; whatever teardowns fail, every instance whose teardown
\* succeeded is removed from the registry, the call returns only when every
\* teardown has settled, and it returns success=true.
C4_CloseAllIsolatesFailures ==
    [][ /\ (closeAll.pc = "idle" /\ closeAll'.pc = "settling")
             => closeAll'.pending = Registered /\ closeAll'.entries = Registered
        /\ closeAll'.pc = "settling"
             => closeAll'.settledOk \cap DOMAIN instances' = {}
        /\ (closeAll.pc = "settling" /\ closeAll'.pc = "idle")
             => /\ closeAll.pending = {}
                /\ closeAll'.settledOk \cap DOMAIN instances' = {}
                /\ ret'.op = "closeAllInstances"
                /\ ret'.success ]_vars

\* C4 witness: closeAllInstances returned success for two instances, the
\* teardown of one failed and the other, whose teardown succeeded, is gone.
C4_Witness ==
    /\ CloseAllReturned
    /\ ret.success
    /\ Cardinality(closeAll.entries) = 2
    /\ Cardinality(closeAll.settledOk) = 1
    /\ closeAll.settledOk \cap Registered = {}
    /\ (closeAll.entries \ closeAll.settledOk) \subseteq Registered

\* C5: the closedCount returned by closeAllInstances is the number of
\* instances this call removed from the registry.
C5_ClosedCountIsRemovals ==
    CloseAllReturned => ret.closedCount = Cardinality(closeAll.removed)

Range(seq) == {seq[i] : i \in 1..Len(seq)}

\* The timer fires sweep s in this step: its scan runs.
Scans(s) == sweeps[s].pc = "idle" /\ sweeps'[s] # sweeps[s]

\* Sweep s removes instance id from the registry in this step.
SweepRemoves(s, id) ==
    /\ sweeps[s].pc = "teardown"
    /\ sweeps'[s] # sweeps[s]
    /\ id \in Registered
    /\ id \notin DOMAIN instances'

\* C6: an instance whose lock count is positive when a cleanup tick scans
\* it is not marked by that tick, whatever its idle time, and is not removed
\* by that tick: a tick removes only instances that it read as unlocked.
C6_LockedAtScanIsSpared ==
    [][\A s \in 1..limit.sweeps :
          /\ Scans(s) =>
                \A id \in Registered :
                    isInstanceLocked(id) => id \notin Range(sweeps'[s].toClose)
          /\ \A id \in Ids :
                SweepRemoves(s, id) =>
                    id \in DOMAIN sweeps[s].scan /\ ~sweeps[s].scan[id].locked ]_vars

\* C6 witness: a sweep is closing what it marked; it read an instance as
\* locked and idle beyond the timeout and did not mark it, and that instance
\* is still registered and locked.
C6_Witness ==
    \E s \in 1..limit.sweeps :
        /\ sweeps[s].pc = "teardown"
        /\ \E id \in DOMAIN sweeps[s].scan :
              /\ sweeps[s].scan[id].locked
              /\ sweeps[s].scan[id].idle > instanceTimeout
              /\ id \notin Range(sweeps[s].toClose)
              /\ id \in Registered
              /\ isInstanceLocked(id)

\* C8: an instance whose idle time is at most instanceTimeout when a cleanup
\* tick scans it (as after a getInstance that reset lastUsed) is not marked
\* and not removed by that tick; the comparison is strict: a tick removes
\* only instances whose idle time it read as greater than instanceTimeout.
C8_FreshAtScanIsSpared ==
    [][\A s \in 1..limit.sweeps :
          /\ Scans(s) =>
                \A id \in Registered :
                    now - instances[id].lastUsed <= instanceTimeout
                        => id \notin Range(sweeps'[s].toClose)
          /\ \A id \in Ids :
                SweepRemoves(s, id) =>
                    /\ id \in DOMAIN sweeps[s].scan
                    /\ sweeps[s].scan[id].idle > instanceTimeout ]_vars

\* C8 witness: a sweep read an unlocked instance with an idle time of
\* exactly instanceTimeout and did not mark it, while it marked an instance
\* created after it (so the spared instance had been fetched by getInstance
\* since its creation).
C8_Witness ==
    \E s \in 1..limit.sweeps :
        /\ sweeps[s].pc = "teardown"
        /\ \E id, other \in DOMAIN sweeps[s].scan :
              /\ id < other
              /\ ~sweeps[s].scan[id].locked
              /\ sweeps[s].scan[id].idle = instanceTimeout
              /\ id \notin Range(sweeps[s].toClose)
              /\ id \in Registered
              /\ other \in Range(sweeps[s].toClose)

\* A closeInstance call made by sweep s returns success in this step.
SweepCloseSucceeds(s) ==
    /\ sweeps[s].pc = "teardown"
    /\ sweeps'[s] # sweeps[s]
    /\ ret'.success

\* C7: a cleanup tick marks every registered instance that is unlocked and
\* idle for more than instanceTimeout when it scans, and removes the
\* instance when its teardown succeeds; so, with the timer firing and the
\* teardowns settling, an instance idle beyond the timeout is eventually
\* removed, unless it is locked, fetched again, or its teardown fails.
C7_ExpiredIsReclaimed ==
    /\ [][\A s \in 1..limit.sweeps :
            /\ Scans(s) =>
                  \A id \in Registered :
                      ( /\ ~isInstanceLocked(id)
                        /\ now - instances[id].lastUsed > instanceTimeout )
                      => id \in Range(sweeps'[s].toClose)
            /\ SweepCloseSucceeds(s) =>
                  Head(sweeps[s].toClose) \notin DOMAIN instances' ]_vars
    /\ \A id \in 1..CleanupIds :
          (id \in Registered /\ now - instances[id].lastUsed > instanceTimeout)
              ~> \/ id \notin Registered
                 \/ isInstanceLocked(id)
                 \/ now - instances[id].lastUsed <= instanceTimeout
                 \/ TeardownFailedFor(id)

\* C7 witness: the closeInstance call a sweep made for an instance it had
\* marked returned success, and the instance is gone.
C7_Witness ==
    /\ ret.op = "closeInstance"
    /\ ret.caller < 0
    /\ ret.success
    /\ ret.arg \notin Registered

\* The release functions of `id` that have not been invoked yet: the
\* holders of its lock.
Holders(id) ==
    {h \in 1..Len(handles) : handles[h].id = id /\ ~handles[h].invoked}

\* An acquireOperationLock call returns in this step.
AcquireReturns == ret'.op = "acquireOperationLock"

\* The release function h was acquired while its id had no holder, and no
\* lock has been acquired on that id since.
OnlyHolder(h) ==
    /\ handles[h].alone
    /\ \A g \in (h + 1)..Len(handles) : handles[g].id # handles[h].id

\* C9: acquireOperationLock on an id that is not registered returns
\* undefined and leaves the lock table unchanged; on a registered id with no
\* other holder, the id is locked as long as the returned release function
\* has not been invoked, and not locked once it has been.
C9_LockedFromAcquireToRelease ==
    [][ /\ (AcquireReturns /\ ret'.arg \notin Registered)
             => ~ret'.success /\ operationLocks' = operationLocks
        /\ \A h \in 1..Len(handles') :
             OnlyHolder(h)' =>
                 (isInstanceLocked(handles[h].id)' <=> ~handles'[h].invoked) ]_vars

\* C10: the lock count of an id is decremented exactly once per acquired
\* lock, however often a release function is invoked: it is the number of
\* holders that have not released, so a holder that calls its release
\* function twice leaves the id locked while another holder remains.
C10_ReleaseIsIdempotent ==
    \A id \in Ids : LockCount(id) = Cardinality(Holders(id))

\* The acquisitions made on `id`, and the releases of them.
Acquisitions(id) == {h \in 1..Len(handles) : handles[h].id = id}

Releases(id) == {h \in Acquisitions(id) : handles[h].invoked}

\* C11: when every release function is invoked at most once, the lock count
\* of an id is its acquisitions minus its releases and is never negative,
\* the lock table has an entry for the id exactly when the count is positive
\* (no zero-valued entry is stored), and isInstanceLocked(id) is true iff the
\* count is positive.
C11_CountIsAcquiresMinusReleases ==
    \A id \in Ids :
        /\ LockCount(id) =
               Cardinality(Acquisitions(id)) - Cardinality(Releases(id))
        /\ LockCount(id) >= 0
        /\ id \in DOMAIN operationLocks <=> LockCount(id) > 0
        /\ id \in DOMAIN operationLocks => operationLocks[id] > 0
        /\ isInstanceLocked(id) <=> LockCount(id) > 0

\* C11 witness: two locks were acquired on an id and one of them released;
\* the id is still locked, with a count of one.
C11_Witness ==
    \E id \in Ids :
        /\ Cardinality(Acquisitions(id)) = 2
        /\ Cardinality(Releases(id)) = 1
        /\ operationLocks[id] = 1
        /\ isInstanceLocked(id)

\* C16: for every session, the console buffer holds at most 1000 entries
\* after every append, and after N appends it holds exactly the
\* min(N, 1000) most recent entries in their original order.
C16_ConsoleKeepsMostRecent ==
    \A id \in Registered :
        /\ Len(instances[id].consoleLogs) <= 1000
        /\ instances[id].consoleLogs = LastN(pages[id].consoleAppended, 1000)

\* C16 witness: 1002 messages were appended and the buffer holds the last
\* 1000 of them, the first of which is the third message.
C16_Witness ==
    \E id \in Registered :
        /\ Len(pages[id].consoleAppended) = 1002
        /\ Len(instances[id].consoleLogs) = 1000
        /\ instances[id].consoleLogs[1].text = 3
        /\ instances[id].consoleLogs[1000].text = 1002

\* the resource kinds of the static-asset set
IsStaticAsset(entry) ==
    entry.resourceType \in {"document", "stylesheet", "image", "media", "font",
                            "script", "texttrack", "manifest"}

IsApi(entry) == ~IsStaticAsset(entry)

\* C17: every network entry, from a response or from a failed request, is
\* stored in the asset buffer iff its resource kind is in the static-asset
\* set and otherwise in the API buffer; the API buffer holds at most 500
\* entries and the asset buffer at most 200, the oldest evicted first.
C17_NetworkEntriesRouted ==
    \A id \in Registered :
        /\ Len(instances[id].networkApiLogs) <= 500
        /\ Len(instances[id].networkAssetLogs) <= 200
        /\ instances[id].networkAssetLogs =
               LastN(SelectSeq(pages[id].networkAppended, IsStaticAsset), 200)
        /\ instances[id].networkApiLogs =
               LastN(SelectSeq(pages[id].networkAppended, IsApi), 500)
        /\ Len(pages[id].networkAppended) + Cardinality(pages[id].responses)
               = pages[id].requests

\* C17 witness: both buffers are full and have evicted entries; each holds
\* an entry of a response and an entry of a failed request.
C17_Witness ==
    \E id \in Registered :
        /\ Len(instances[id].networkApiLogs) = 500
        /\ Len(instances[id].networkAssetLogs) = 200
        /\ instances[id].networkApiLogs[1].seq > 1
        /\ Len(SelectSeq(pages[id].networkAppended, IsApi)) > 500
        /\ \E i, j \in 1..200 :
              /\ instances[id].networkAssetLogs[i].failed
              /\ ~instances[id].networkAssetLogs[j].failed
        /\ \E i, j \in 1..500 :
              /\ instances[id].networkApiLogs[i].failed
              /\ ~instances[id].networkApiLogs[j].failed

\* A getConsoleLogs call on a registered session returns in this step.
ConsoleLogsReturned ==
    /\ ret'.op = "getConsoleLogs"
    /\ ret'.success

\* the entries of a buffer whose type is `type`, in buffer order; all of
\* them when no type is given
MatchingType(buffer, type) ==
    SelectSeq(buffer, LAMBDA e : type = "" \/ e.type = type)

\* the last k entries of a sequence (all of them when it has fewer)
MostRecent(seq, k) ==
    LET m == IF k < Len(seq) THEN k ELSE Len(seq)
    IN [i \in 1..m |-> seq[Len(seq) - m + i]]

\* what getConsoleLogs is to return from `buffer` under `options`
ExpectedConsoleLogs(buffer, options) ==
    IF options.limit > 0
    THEN MostRecent(MatchingType(buffer, options.type), options.limit)
    ELSE MatchingType(buffer, options.type)

\* C18: getConsoleLogs on a registered session returns the entries that
\* match the type filter (all entries when no type is given), truncated to
\* the last `limit` of them in buffer order when limit > 0; totalEntries is
\* the buffer size before filtering, returnedEntries the number of entries
\* returned, and filtered is true iff a type was given.
C18_ConsoleLogsFilteredAndLimited ==
    [][ConsoleLogsReturned =>
          /\ ret'.data.logs = ExpectedConsoleLogs(
                                  instances[ret'.arg].consoleLogs, ret'.options)
          /\ ret'.data.totalEntries = Len(instances[ret'.arg].consoleLogs)
          /\ ret'.data.returnedEntries = Len(ret'.data.logs)
          /\ ret'.data.filtered <=> ret'.options.type # "" ]_vars

\* C18 witness: of three entries two match the type asked for, and the call
\* returned the later of the two under a limit of one.
C18_Witness ==
    /\ ret.op = "getConsoleLogs"
    /\ ret.success
    /\ ret.options = [type |-> "log", limit |-> 1, clear |-> FALSE]
    /\ ret.data.totalEntries = 3
    /\ ret.data.returnedEntries = 1
    /\ ret.data.filtered
    /\ Len(MatchingType(instances[ret.arg].consoleLogs, "log")) = 2
    /\ instances[ret.arg].consoleLogs[3].type = "error"
    /\ ret.data.logs[1] = instances[ret.arg].consoleLogs[2]

\* A getConsoleLogs call with clear=true on a registered session returns in
\* this step.
ConsoleLogsCleared == ConsoleLogsReturned /\ ret'.options.clear

\* The step just taken was a getConsoleLogs call with clear=true on the
\* registered session `id`.
JustCleared(id) ==
    /\ ret.op = "getConsoleLogs"
    /\ ret.success
    /\ ret.arg = id
    /\ ret.options.clear

\* C19: getConsoleLogs with clear=true returns the snapshot taken before
\* clearing and empties the whole console buffer, also of the entries the
\* type filter or the limit excluded; the buffer stays empty until the next
\* console event, and a getConsoleLogs that follows with no console event in
\* between returns zero entries and totalEntries 0.
C19_ClearReturnsSnapshotAndEmpties ==
    [][ /\ ConsoleLogsCleared =>
              /\ ret'.data.logs = ExpectedConsoleLogs(
                                      instances[ret'.arg].consoleLogs,
                                      ret'.options)
              /\ ret'.data.totalEntries = Len(instances[ret'.arg].consoleLogs)
              /\ ret'.data.cleared
              /\ instances'[ret'.arg].consoleLogs = <<>>
        /\ \A id \in Registered :
              /\ ( /\ instances[id].consoleLogs = <<>>
                   /\ id \in DOMAIN instances'
                   /\ instances'[id].consoleLogs # <<>> )
                 => pages'[id].consoleAppended # pages[id].consoleAppended
              /\ (JustCleared(id) /\ ConsoleLogsReturned /\ ret'.arg = id)
                 => /\ ret'.data.logs = <<>>
                    /\ ret'.data.returnedEntries = 0
                    /\ ret'.data.totalEntries = 0 ]_vars

\* C19 witness: a call with clear=true, a type and a limit returned one of
\* three entries, and the buffer is empty.
C19_Witness ==
    /\ ret.op = "getConsoleLogs"
    /\ ret.success
    /\ ret.options = [type |-> "error", limit |-> 1, clear |-> TRUE]
    /\ ret.data.totalEntries = 3
    /\ ret.data.returnedEntries = 1
    /\ ret.data.cleared
    /\ instances[ret.arg].consoleLogs = <<>>

\* A getNetworkLogs call on a registered session returns in this step.
NetworkLogsReturned == ret'.op = "getNetworkLogs" /\ ret'.success

AssetKeys == {"assetLogs", "totalAssetEntries", "returnedAssetEntries"}

\* what getNetworkLogs reports of a buffer under the options `o`
ExpectedNetworkLogs(buffer, o) ==
    LET matching == SelectSeq(buffer,
                        LAMBDA e : o.resourceType = ""
                                   \/ e.resourceType = o.resourceType)
    IN StripBody(IF o.limit > 0 THEN MostRecent(matching, o.limit)
                 ELSE matching)

\* C20: in getNetworkLogs the asset buffer is part of the response exactly
\* when includeAssets is set, and it is cleared exactly when both clear and
\* includeAssets are set; the API buffer is emptied exactly when clear is
\* set, so a call with clear and without includeAssets empties the API
\* buffer and leaves the asset buffer unchanged.
C20_AssetsOnlyWhenIncluded ==
    [][NetworkLogsReturned =>
          LET o == ret'.options
              before == instances[ret'.arg]
              after == instances'[ret'.arg]
          IN /\ IF o.includeAssets
                THEN /\ AssetKeys \subseteq DOMAIN ret'.data
                     /\ ret'.data.assetLogs =
                            ExpectedNetworkLogs(before.networkAssetLogs, o)
                     /\ ret'.data.totalAssetEntries =
                            Len(before.networkAssetLogs)
                     /\ ret'.data.returnedAssetEntries =
                            Len(ret'.data.assetLogs)
                ELSE AssetKeys \cap DOMAIN ret'.data = {}
             /\ ret'.data.apiLogs =
                    ExpectedNetworkLogs(before.networkApiLogs, o)
             /\ after.networkAssetLogs =
                    IF o.clear /\ o.includeAssets
                    THEN <<>> ELSE before.networkAssetLogs
             /\ after.networkApiLogs =
                    IF o.clear THEN <<>> ELSE before.networkApiLogs ]_vars

\* C20 witness: a call with clear and without includeAssets emptied an API
\* buffer of one entry and left one entry in the asset buffer.
C20_Witness ==
    /\ ret.op = "getNetworkLogs"
    /\ ret.success
    /\ ret.options.clear
    /\ ~ret.options.includeAssets
    /\ ret.data.totalApiEntries = 1
    /\ instances[ret.arg].networkApiLogs = <<>>
    /\ Len(instances[ret.arg].networkAssetLogs) = 1

\* One of the three log queries returns in this step; a query is one step.
QueryReturned ==
    ret'.op \in {"getConsoleLogs", "getNetworkLogs", "getResponseBody"}

\* A closeInstance call returns in the step that made it, which it does
\* only before its first await.
CloseReturnedAtCall ==
    /\ ret'.op = "closeInstance"
    /\ ret'.caller \in DOMAIN closers
    /\ closers[ret'.caller].pc = "idle"

\* C12: closeInstance, getConsoleLogs, getNetworkLogs and getResponseBody
\* called with an id that is not registered return success=false with the
\* not-found error of that id, start no browser teardown, and change neither
\* the registry, nor the lock table, nor any buffer of any session.
C12_UnknownIdIsNotFound ==
    [][ /\ ((QueryReturned \/ CloseReturnedAtCall)
             /\ ret'.arg \notin Registered)
              => /\ ~ret'.success
                 /\ ret'.error = NotFoundError(ret'.arg)
                 /\ UNCHANGED <<instances, operationLocks, closers, closeAll,
                                sweeps, creators>>
        /\ \A k \in DOMAIN closers :
              (closers[k].pc = "idle" /\ closers'[k].pc = "teardown")
                  => closers'[k].id \in Registered ]_vars

\* C12 witness: getNetworkLogs was called with an id that is not registered
\* while a session holds a lock and entries in its three buffers.
C12_Witness ==
    /\ ret.op = "getNetworkLogs"
    /\ ~ret.success
    /\ ret.arg = 2
    /\ Registered = {1}
    /\ LockCount(1) = 1
    /\ instances[1].consoleLogs # <<>>
    /\ instances[1].networkApiLogs # <<>>
    /\ instances[1].networkAssetLogs # <<>>

\* createInstance has returned success with the id `id`.
CreateReturned(id) ==
    ret.op = "createInstance" /\ ret.success /\ ret.instanceId = id

\* closeInstance(id) has returned success.
CloseReturned(id) ==
    ret.op = "closeInstance" /\ ret.success /\ ret.arg = id

\* The step removes `id` from the registry as a close of it: the delete of
\* closeInstance or the delete of closeAllInstances after browser.close().
ClosedInStep(id) ==
    \/ ret'.op = "closeInstance" /\ ret'.success /\ ret'.arg = id
    \/ id \in closeAll'.removed \ closeAll.removed

\* C13: the session of a createInstance that returns success is registered
\* when it returns and stays registered until a close of it, and getInstance
\* returns a session exactly when its id is registered; once closeInstance(id)
\* has returned success, the id is never registered again, so that every
\* later getInstance(id) returns undefined, and no later createInstance
\* returns the same id.
C13_RegisteredFromCreateUntilClose ==
    /\ [][ /\ \A id \in Ids :
                /\ CreateReturned(id)' => id \in Registered'
                /\ (id \in Registered /\ id \notin Registered')
                       => ClosedInStep(id)
           /\ ret'.op = "getInstance" =>
                /\ ret'.success <=> ret'.arg \in Registered
                /\ ret'.success => ret'.instanceId = ret'.arg ]_vars
    /\ \A id \in 1..RegistryIds :
          [](CloseReturned(id) =>
                [](id \notin Registered /\ ~CreateReturned(id)))

\* C13 witness: getInstance(1) returned undefined after session 1 was created
\* and closed and while the session created after it is registered.
C13_Witness ==
    /\ ret.op = "getInstance"
    /\ ~ret.success
    /\ ret.arg = 1
    /\ Registered = {2}

\* lastUsed of the session `id` differs after the step.
LastUsedChanged(id) ==
    /\ id \in Registered
    /\ id \in Registered'
    /\ instances'[id].lastUsed # instances[id].lastUsed

\* the operations that are to leave lastUsed alone
ReadingOps ==
    {"getConsoleLogs", "getNetworkLogs", "getResponseBody", "listInstances",
     "acquireOperationLock", "isInstanceLocked"}

\* C14: a session's lastUsed changes only in a getInstance call that finds
\* the session, which sets it to the current time and leaves the other
\* sessions alone; a getInstance call with an unknown id changes no session,
\* and neither do getConsoleLogs, getNetworkLogs, getResponseBody,
\* listInstances, acquireOperationLock and isInstanceLocked.
C14_LastUsedOnlyByGetInstance ==
    [][ /\ \A id \in Ids :
              LastUsedChanged(id) =>
                  /\ ret'.op = "getInstance"
                  /\ ret'.success
                  /\ ret'.arg = id
        /\ (ret'.op = "getInstance" /\ ret'.arg \in Registered) =>
              /\ ret'.success
              /\ instances'[ret'.arg].lastUsed = now
        /\ (ret'.op = "getInstance" /\ ret'.arg \notin Registered) =>
              /\ ~ret'.success
              /\ instances' = instances
        /\ ret'.op \in ReadingOps =>
              /\ Registered' = Registered
              /\ \A id \in Registered :
                    instances'[id].lastUsed = instances[id].lastUsed ]_vars

\* C14 witness: getInstance found session 1 and set its lastUsed to the
\* current time, later than its creation, while session 2 kept the time of
\* its creation.
C14_Witness ==
    /\ ret.op = "getInstance"
    /\ ret.success
    /\ ret.arg = 1
    /\ now = 2
    /\ Registered = {1, 2}
    /\ instances[1].lastUsed = 2
    /\ instances[2].lastUsed = 1

\* The createInstance call of creator `c` fails in this step while it
\* awaits the engine: launchBrowser, newContext or newPage rejected.
EngineFailedIn(c) ==
    /\ creators[c] \in {"launch", "newContext", "newPage"}
    /\ creators'[c] = "idle"
    /\ ~(ret'.op = "createInstance" /\ ret'.caller = c /\ ret'.success)

\* C15: a createInstance call whose launch, context creation or page
\* creation fails returns, in the step of the failure, one result with
\* success=false and the creation error that carries the message of the
\* engine's error; no step of a createInstance call but the one that returns
\* success changes the registry.
C15_EngineFailureLeavesRegistry ==
    [][\A c \in DOMAIN creators :
          /\ EngineFailedIn(c) =>
                /\ ret'.op = "createInstance"
                /\ ret'.caller = c
                /\ ~ret'.success
                /\ ret'.error.text = "Failed to create browser instance"
                /\ ret'.error.arg \in EngineMessages
                /\ ret'.instanceId = 0
                /\ instances' = instances
          /\ (creators'[c] # creators[c] /\ instances' # instances) =>
                /\ creators[c] = "newPage"
                /\ ret'.op = "createInstance"
                /\ ret'.caller = c
                /\ ret'.success ]_vars

\* C15 witness: a createInstance call failed with the engine's second
\* message while one session is registered and another call is in flight.
C15_Witness ==
    /\ ret.op = "createInstance"
    /\ ~ret.success
    /\ ret.error = CreateFailedError(2)
    /\ Registered = {1}
    /\ InFlightCreates # {}

\* the entries stored in the two network buffers of the session `id`
Stored(id) ==
    Range(instances[id].networkApiLogs)
        \cup Range(instances[id].networkAssetLogs)

\* the stored entries of `id` for `target` that have a cached body
StoredWithBody(id, target) ==
    {entry \in Stored(id) : /\ entry.method = target.method
                            /\ entry.url = target.url
                            /\ entry.cachedBody # NoBody}

\* the entries a getNetworkLogs response lists
Listed(data) ==
    Range(data.apiLogs)
        \cup (IF "assetLogs" \in DOMAIN data THEN Range(data.assetLogs)
              ELSE {})

\* C21: no entry that getNetworkLogs returns carries a cachedBody, and a
\* call without clear leaves the stored entries, their cached bodies
\* included, as they are: a getResponseBody that follows it finds a body
\* exactly when a stored entry for its method and url has one, and returns
\* the body of such an entry.
C21_ListingStripsBodiesOnly ==
    [][ /\ NetworkLogsReturned =>
              /\ \A entry \in Listed(ret'.data) :
                    "cachedBody" \notin DOMAIN entry
              /\ ~ret'.options.clear => instances' = instances
        /\ ( /\ ret.op = "getNetworkLogs"
             /\ ret.success
             /\ ~ret.options.clear
             /\ ret'.op = "getResponseBody"
             /\ ret'.arg = ret.arg )
              => /\ ret'.success
                 /\ ret'.data.found
                        <=> StoredWithBody(ret'.arg, ret'.options) # {}
                 /\ ret'.data.found =>
                        \E entry \in StoredWithBody(ret'.arg, ret'.options) :
                            ret'.data.body = entry.cachedBody ]_vars

\* C21 witness: a getNetworkLogs call without clear listed, without a
\* body, the one entry of the API buffer, which is stored with a cached
\* body of the largest cached size.
C21_Witness ==
    /\ ret.op = "getNetworkLogs"
    /\ ret.success
    /\ ~ret.options.clear
    /\ Len(ret.data.apiLogs) = 1
    /\ Len(instances[ret.arg].networkApiLogs) = 1
    /\ instances[ret.arg].networkApiLogs[1].cachedBody = MAX_CACHED_BODY_SIZE

\* the position of the stored entry `entry` among the appends of the page
Appended(id, entry) ==
    CHOOSE i \in 1..Len(pages[id].networkAppended) :
        pages[id].networkAppended[i] = entry

\* the stored entry for `target` with a cached body that was appended last
MostRecentlyAppended(id, target) ==
    CHOOSE entry \in StoredWithBody(id, target) :
        \A other \in StoredWithBody(id, target) :
            Appended(id, other) <= Appended(id, entry)

\* getResponseBody has returned for a registered session.
ResponseBodyReturned == ret.op = "getResponseBody" /\ ret.success

\* C22: when stored entries of the API and asset buffers match the method
\* and url and have a cached body, getResponseBody returns the body of the
\* one appended last, whichever buffer holds it.
C22_MostRecentBodyWins ==
    (ResponseBodyReturned /\ StoredWithBody(ret.arg, ret.options) # {})
        => /\ ret.data.found
           /\ ret.data.body =
                  MostRecentlyAppended(ret.arg, ret.options).cachedBody

\* C23: getResponseBody on a registered session none of whose stored
\* entries for the method and url has a cached body, entries stored without
\* a body included, returns success=true with found=false and the method
\* and url asked for; no getResponseBody call changes a buffer.
C23_NoCachedBodyIsNotFound ==
    [][(ret'.op = "getResponseBody" /\ ret'.arg \in Registered) =>
          /\ instances' = instances
          /\ StoredWithBody(ret'.arg, ret'.options) = {} =>
                /\ ret'.success
                /\ ret'.data =
                       [found |-> FALSE, method |-> ret'.options.method,
                        url |-> ret'.options.url] ]_vars

\* C23 witness: found=false was returned for a method and url of which an
\* entry is stored, without a cached body.
C23_Witness ==
    /\ ResponseBodyReturned
    /\ ~ret.data.found
    /\ \E entry \in Stored(ret.arg) :
          /\ entry.method = ret.options.method
          /\ entry.url = ret.options.url
          /\ entry.cachedBody = NoBody
          /\ ~entry.failed

(***************************************************************************)
(* The proxy of a session.                                                 *)
(***************************************************************************)
\* createInstance call c returns a session in this step
CreateReturnsSession(c) ==
    /\ creators[c] = "newPage"
    /\ creators'[c] = "idle"
    /\ ret'.op = "createInstance"
    /\ ret'.success

\* C24: when the configuration of a createInstance call names a proxy
\* server, the session it returns has that server on its context and in
\* data.proxy of the result, whatever the global configuration, the
\* detected proxy and the autoDetect flag of the call are.
C24_ExplicitServerWins ==
    [][\A c \in 1..ProxyCreators :
          CreateReturnsSession(c)
          /\ calls[c].browserConfig.proxy.server # NoProxy
          => /\ ret'.data.proxy = calls[c].browserConfig.proxy.server
             /\ instances'[ret'.instanceId].contextProxy =
                    calls[c].browserConfig.proxy.server]_vars

\* a session made with the explicit server although the call sets
\* autoDetect to false, the global configuration names another server and
\* a proxy variable is set
C24_Witness ==
    /\ ret.op = "createInstance"
    /\ ret.success
    /\ ret.data.proxy = ExplicitServer
    /\ instances[ret.instanceId].contextProxy = ExplicitServer
    /\ environment.proxy.server = GlobalServer
    /\ environment.env["HTTP_PROXY"] # NoProxy
    /\ detectedProxy = GlobalServer

\* C25: when the configuration of a createInstance call sets autoDetect to
\* false and names no server, the session it returns has no proxy on its
\* context, none in the launch arguments and none in the result, also when
\* the global configuration names a server or proxy variables are set.
C25_AutoDetectOffMeansNoProxy ==
    [][\A c \in 1..ProxyCreators :
          CreateReturnsSession(c)
          /\ calls[c].browserConfig.proxy.server = NoProxy
          /\ calls[c].browserConfig.proxy.autoDetect = "false"
          => /\ ret'.data.proxy = NoProxy
             /\ instances'[ret'.instanceId].contextProxy = NoProxy
             /\ instances'[ret'.instanceId].launchProxy = NoProxy]_vars

\* a chromium session without proxy in a process whose detected proxy is
\* the global server
C25_Witness ==
    /\ ret.op = "createInstance"
    /\ ret.success
    /\ ret.data.browserType = "chromium"
    /\ ret.data.proxy = NoProxy
    /\ instances[ret.instanceId].contextProxy = NoProxy
    /\ instances[ret.instanceId].launchProxy = NoProxy
    /\ detectedProxy = GlobalServer

(***************************************************************************)
(* The process-wide proxy.                                                 *)
(***************************************************************************)
\* the variables in the order of their precedence
EnvPrecedence ==
    <<"HTTP_PROXY", "http_proxy", "HTTPS_PROXY", "https_proxy", "ALL_PROXY",
      "all_proxy">>

\* the value of the first variable in the order that is set, NoProxy when
\* none is
FirstSetVariable ==
    LET set == {i \in 1..Len(EnvPrecedence) :
                   environment.env[EnvPrecedence[i]] # NoProxy}
    IN IF set = {} THEN NoProxy
       ELSE environment.env[EnvPrecedence[Min(set)]]

\* the global server, else with detection on the first set variable, else
\* nothing
ProxyWithoutSystemTier ==
    IF environment.proxy.server # NoProxy THEN environment.proxy.server
    ELSE IF environment.proxy.autoDetect # "false" THEN FirstSetVariable
    ELSE NoProxy

\* an enabled macOS system web proxy with a server and a port
SystemProxyReported ==
    /\ environment.platform = "darwin"
    /\ ~environment.system.fails
    /\ environment.system.enabled
    /\ environment.system.server # ""
    /\ environment.system.port # ""

\* the same with the system proxy of macOS as the tier after the variables
ProxyWithSystemTier ==
    IF environment.proxy.server # NoProxy THEN environment.proxy.server
    ELSE IF environment.proxy.autoDetect = "false" THEN NoProxy
    ELSE IF FirstSetVariable # NoProxy THEN FirstSetVariable
    ELSE IF SystemProxyReported
    THEN <<"http://", environment.system.server, ":",
           environment.system.port>>
    ELSE NoProxy

\* C26 as stated: once initializeProxy has returned, the process-wide proxy
\* is the global server when one is given; otherwise, when global
\* autoDetect is not false, the first set value among HTTP_PROXY,
\* http_proxy, HTTPS_PROXY, https_proxy, ALL_PROXY, all_proxy; otherwise
\* absent.
C26_ProxyFromConfigOrVariables ==
    proxyInitialized => detectedProxy = ProxyWithoutSystemTier

\* C26, amended: as stated, but when detection is on and no variable is
\* set, on macOS an enabled system web proxy with a server and a port gives
\* http://server:port, and otherwise the proxy is absent.  With global
\* autoDetect false and no server the proxy is absent whatever the
\* variables and the system settings are.
C26_ProxyFromConfigVariablesOrSystem ==
    proxyInitialized => detectedProxy = ProxyWithSystemTier

\* detection took the catch-all variable although macOS reports a system
\* proxy
C26_Witness ==
    /\ proxyInitialized
    /\ environment.proxy.server = NoProxy
    /\ environment.proxy.autoDetect = "true"
    /\ \A name \in EnvNames \ {"ALL_PROXY", "all_proxy"} :
          environment.env[name] = NoProxy
    /\ environment.env["ALL_PROXY"] # NoProxy
    /\ environment.env["all_proxy"] # NoProxy
    /\ SystemProxyReported
    /\ detectedProxy = EnvValue("ALL_PROXY")

(***************************************************************************)
(* The tools.                                                              *)
(***************************************************************************)
\* executeTools is called in slot t in this step: it awaits an engine call
\* or it has returned at once
ToolCalled(t) ==
    /\ tools[t].pc = "idle"
    /\ \/ tools'[t].pc = "engine"
       \/ ret'.op = "executeTools" /\ ret'.caller = t

\* the tool and the arguments of the call of this step
CalledTool(t) == IF tools'[t].pc = "engine" THEN tools'[t].name ELSE ret'.tool

CalledArgs(t) == IF tools'[t].pc = "engine" THEN tools'[t].args ELSE ret'.args

\* the URLs with the scheme http or https, in any case of the letters
WebUrls == {"http://a.test/", "https://a.test/", "HTTP://A.TEST/"}

\* the inputs that fail validation
FailsValidation(name, args) ==
    \/ name = "browser_navigate" /\ args.url \notin WebUrls
    \/ args.selector # Undefined /\ args.selector > MAX_SELECTOR_SIZE
    \/ args.script # Undefined /\ args.script > MAX_SCRIPT_SIZE

\* the inputs of a tool that pass validation, a size at its limit
PassesAtLimit(name, args) ==
    /\ name \in PageTools
    /\ ~FailsValidation(name, args)
    /\ \/ args.selector = MAX_SELECTOR_SIZE
       \/ args.script = MAX_SCRIPT_SIZE

\* the call of this step returned success=false and made no engine call
RejectedAtOnce(t) ==
    /\ tools'[t].pc = "idle"
    /\ ret'.op = "executeTools"
    /\ ret'.caller = t
    /\ ~ret'.success

\* C27: a call of a tool with a navigate URL whose scheme is not http or
\* https, a selector longer than 10000 characters or a script longer than
\* 1000000 characters returns success=false without an engine call; a call
\* on a registered session whose selector or script is exactly at the limit
\* goes on to the engine.
C27_InvalidInputRejectedBeforeEngine ==
    [][\A t \in 1..ToolsCallers :
          ToolCalled(t)
          => /\ FailsValidation(CalledTool(t), CalledArgs(t))
                => RejectedAtOnce(t)
             /\ PassesAtLimit(CalledTool(t), CalledArgs(t))
                /\ CalledArgs(t).instanceId \in Registered
                => tools'[t].pc = "engine"]_vars

\* the executeTools call in slot t, awaiting the engine, returns in this
\* step
ToolReturned(t) ==
    /\ tools[t].pc = "engine"
    /\ tools'[t].pc = "idle"

\* it returns because the engine call it awaited was rejected
ToolEngineCallFailedIn(t) ==
    /\ ToolReturned(t)
    /\ ~(ret'.op = "executeTools" /\ ret'.caller = t /\ ret'.success)
    /\ ~(ret'.op = "executeTools" /\ ret'.caller = t
         /\ ret'.error.text = "Element not found")

\* C28: every executeTools call ends with a result; when the engine call a
\* tool awaits is rejected (an error or a timeout), the call returns in that
\* step success=false with the text of the tool and the message of the
\* engine's error, and the registry with its log buffers and the lock table
\* are as they were before the step.
C28_EngineFailureIsAResult ==
    [][\A t \in 1..ToolsCallers :
          /\ ToolReturned(t) \/ (ToolCalled(t) /\ tools'[t].pc = "idle")
             => /\ ret'.op = "executeTools"
                /\ ret'.caller = t
                /\ ret'.success \in BOOLEAN
          /\ ToolEngineCallFailedIn(t)
             => /\ ret'.op = "executeTools"
                /\ ret'.caller = t
                /\ ~ret'.success
                /\ ret'.tool = tools[t].name
                /\ ret'.error.text = ToolTable[tools[t].name].failed
                /\ ret'.error.arg \in EngineMessages
                /\ instances' = instances
                /\ operationLocks' = operationLocks]_vars

\* a navigation failed with the engine's second message while the session
\* holds a console message and a lock
C28_Witness ==
    /\ ret.op = "executeTools"
    /\ ret.tool = "browser_navigate"
    /\ ~ret.success
    /\ ret.error = [text |-> "Navigation failed", arg |-> 2]
    /\ 1 \in Registered
    /\ Len(instances[1].consoleLogs) = 1
    /\ isInstanceLocked(1)

\* the call of slot t issues the navigation of `id` to the engine in this
\* step
NavigationIssued(t, id) ==
    /\ tools[t].pc = "idle"
    /\ tools'[t].pc = "engine"
    /\ tools'[t].name = "browser_navigate"
    /\ tools'[t].args.instanceId = id
    /\ tools'[t].issued = <<"goto">>

\* C29: when browser_navigate on a registered session issues page.goto, the
\* console buffer of the session is empty.
C29_NavigateClearsConsoleLogs ==
    [][\A t \in 1..ToolsCallers, id \in 1..ToolsIds :
          NavigationIssued(t, id) => instances'[id].consoleLogs = <<>>]_vars

(***************************************************************************)
(* destroy.                                                                *)
(***************************************************************************)
\* destroy has just returned and every browser.close() of its
\* closeAllInstances resolved
DestroyedCleanly ==
    /\ ret.op = "destroy"
    /\ destroy = "destroyed"
    /\ closeAll.settledOk = closeAll.entries

\* C30: when destroy returns and every teardown it made succeeded, no
\* session is registered and the cleanup timer is stopped; the timer stays
\* stopped from the call of destroy on, so that no sweep starts.
C30_DestroyLeavesNothing ==
    /\ destroy # "idle" => ~cleanupTimer
    /\ DestroyedCleanly => Registered = {}

(***************************************************************************)
(* Sweeps, locks and closes in concurrency.                                *)
(***************************************************************************)
\* C31: a cleanup sweep removes no session whose lock count is positive in
\* the step of the removal; in particular a session that the scan marked
\* and that is locked while the sweep awaits another teardown is not
\* closed by the sweep.
C31_SweepSparesBusySession ==
    [][\A s \in 1..CleanupSweeps, id \in 1..CleanupIds :
          SweepRemoves(s, id) => ~isInstanceLocked(id)]_vars

\* the effective proxy of a call with browserConfig in the environment the
\* manager was constructed in
ProxyAsConstructed(browserConfig) ==
    IF browserConfig.proxy.server # NoProxy THEN browserConfig.proxy.server
    ELSE IF browserConfig.proxy.autoDetect = "false" THEN NoProxy
    ELSE ProxyWithSystemTier

\* C32: this.detectedProxy is assigned by the detection of the constructor
\* only, in the one step in which initializeProxy returns; a createInstance
\* call computes the proxy of its launch and of its context only when that
\* step has been taken; and the proxy of every session is the one of the
\* environment at construction, whatever the proxy variables are changed to
\* afterwards.
C32_DetectionRunsOnceAtConstruction ==
    [][/\ detectedProxy' # detectedProxy
          => ~proxyInitialized /\ proxyInitialized'
       /\ proxyInitialized => proxyInitialized' /\ detectedProxy' = detectedProxy
       /\ \A c \in 1..DetectionCreators :
             /\ creators[c] \in {"idle", "awaitProxy"}
                /\ creators'[c] \notin {"idle", "awaitProxy"}
                => proxyInitialized
             /\ CreateReturnsSession(c)
                => /\ ret'.data.proxy =
                          ProxyAsConstructed(calls[c].browserConfig)
                   /\ instances'[ret'.instanceId].contextProxy =
                          ProxyAsConstructed(calls[c].browserConfig)]_vars

\* a session got the proxy of HTTP_PROXY as it was at construction, after
\* the variable had been set to another value
C32_Witness ==
    /\ ret.op = "createInstance"
    /\ ret.success
    /\ environment.env["HTTP_PROXY"] = EnvValue("HTTP_PROXY")
    /\ processEnv["HTTP_PROXY"] = LaterValue("HTTP_PROXY")
    /\ ret.data.proxy = EnvValue("HTTP_PROXY")
    /\ instances[ret.instanceId].contextProxy = EnvValue("HTTP_PROXY")

\* C33: the session a createInstance call returns has, as the proxy of its
\* context and as data.proxy of the result, the proxy that getEffectiveProxy
\* gives for the merged configuration (config.defaultBrowserConfig overlaid
\* by the configuration of the call), and a chromium session has the same
\* value as its --proxy-server launch argument.
C33_OneProxyFromMergedConfig ==
    [][\A c \in 1..MergeCreators :
          CreateReturnsSession(c)
          => LET resolved == getEffectiveProxy(Merged(calls[c].browserConfig))
             IN /\ ret'.data.proxy = resolved
                /\ instances'[ret'.instanceId].contextProxy = resolved
                /\ calls[c].browserConfig.browserType = "chromium"
                   => instances'[ret'.instanceId].launchProxy = resolved]_vars

(***************************************************************************)
(* The listeners.                                                          *)
(***************************************************************************)
\* C34: when an accessor of the event object throws inside a listener
\* (console, response or requestfailed), the error does not leave the
\* listener, and the registry with the buffers of every session is as it
\* was before the event: no entry, whole or partial, is appended.
C34_ListenerFailureIsSwallowed ==
    [][ret'.op = "listener"
          => /\ ~ret'.raised
             /\ instances' = instances]_vars

(***************************************************************************)
(* A failing teardown within a sweep.                                      *)
(***************************************************************************)
\* Sweep s gets a failure from the closeInstance call it awaits.
SweepCloseFails(s) ==
    /\ sweeps[s].pc = "teardown"
    /\ sweeps'[s] # sweeps[s]
    /\ ~ret'.success

\* Sweep s starts an iteration of its loop in this step.
SweepIterates(s) == sweeps[s].pc = "next" /\ sweeps'[s] # sweeps[s]

\* C35: a teardown failure on one marked session does not abort the sweep:
\* the sweep goes on with the marked sessions that follow, calls the
\* teardown of each of them that is still registered, and each of them
\* whose teardown succeeds is removed from the registry.
C35_SweepSurvivesTeardownFailure ==
    [][\A s \in 1..limit.sweeps :
          /\ (SweepCloseFails(s) /\ Len(sweeps[s].toClose) > 1) =>
                /\ sweeps'[s].pc = "next"
                /\ sweeps'[s].toClose = Tail(sweeps[s].toClose)
          /\ (SweepIterates(s) /\ Head(sweeps[s].toClose) \in Registered) =>
                /\ sweeps'[s].pc = "teardown"
                /\ sweeps'[s].toClose = sweeps[s].toClose
          /\ SweepCloseSucceeds(s) =>
                Head(sweeps[s].toClose) \notin DOMAIN instances' ]_vars

\* C35 witness: a sweep that marked two sessions got a failure for the
\* first, which is still registered, and awaits the teardown of the second.
C35_Witness ==
    \E s \in 1..limit.sweeps :
        /\ sweeps[s].pc = "teardown"
        /\ \E id \in DOMAIN sweeps[s].scan :
              /\ ~sweeps[s].scan[id].locked
              /\ sweeps[s].scan[id].idle > instanceTimeout
              /\ id \in Registered
              /\ id < Head(sweeps[s].toClose)
              /\ id \notin Range(sweeps[s].toClose)

TeardownsInFlight(id) ==
    Cardinality({k \in 1..limit.closers :
                    closers[k].pc = "teardown" /\ closers[k].id = id})
    + Cardinality({s \in 1..limit.sweeps :
                    sweeps[s].pc = "teardown" /\ Head(sweeps[s].toClose) = id})
    + (IF closeAll.pc = "settling" /\ id \in closeAll.pending THEN 1 ELSE 0)

\* A closeInstance call, of a caller or of a sweep, reports success for
\* instance id in this step.
CloseReportsSuccess(id) ==
    /\ ret'.op = "closeInstance"
    /\ ret'.success
    /\ ret'.arg = id

\* C37: the engine teardown of a session is invoked at most once, so no two
\* teardowns of one session are ever in flight, and at most one close
\* reports success for it: a close that reports success has removed the
\* session itself, whatever closeInstance calls, closeAllInstances and
\* sweeps are interleaved.
C37_TeardownAtMostOnce ==
    /\ [](\A id \in 1..SpecIds : TeardownsInFlight(id) <= 1)
    /\ [][\A id \in 1..SpecIds :
             CloseReportsSuccess(id) => id \in Registered]_vars

(***************************************************************************)
(* Tools and the cleanup sweep.                                            *)
(***************************************************************************)
\* C38: while a tool that fetched its session through getInstance awaits an
\* engine call, no cleanup sweep closes the session: it is registered until
\* the tool has returned.
C38_SweepSparesSessionOfRunningTool ==
    \A t \in 1..limit.tools :
        tools[t].pc = "engine" => tools[t].args.instanceId \in Registered

(***************************************************************************)
(* The order of a network buffer.                                          *)
(***************************************************************************)
\* the network buffers of a session
NetworkBuffers(id) ==
    {instances[id].networkApiLogs, instances[id].networkAssetLogs}

AppendedAt(id, entry) ==
    CHOOSE k \in 1..Len(pages[id].networkAppended) :
        pages[id].networkAppended[k].seq = entry.seq

Registers(c) ==
    /\ creators[c] = "newPage"
    /\ creators'[c] = "idle"
    /\ DOMAIN instances' # DOMAIN instances

\* C40: once destroy has returned with every teardown succeeding, the
\* registry stays empty unless createInstance is called afterwards: a
\* createInstance call that was in flight when destroy was called registers
\* no session after destroy has returned.
C40_NoSessionFromCreateInFlight ==
    [][\A c \in 1..DestroyCreators :
          ( /\ destroy = "destroyed"
            /\ closeAll.settledOk = closeAll.entries
            /\ Registers(c) )
          => calls[c].during # "idle"]_vars

====
